---- MODULE Spec2Model ----
(***************************************************************************)
(* Model of the arena-backed B-tree of crates/btree (btree/arena.rs,       *)
(* btree/btree.rs, btree/btree_search.rs, btree/btree_insert.rs,           *)
(* btree/btree_delete.rs).                                                 *)
(*                                                                         *)
(* NodeIds and Vec indexes are 0-based as in the source; TLA+ sequences    *)
(* are 1-based, so element i of a Vec v is v[i + 1].  A Vec is a sequence  *)
(* whose length is the Vec's len(): keys.remove, keys.insert, keys.push,   *)
(* keys.pop and keys.extend change it, keys[i] = x does not.  An index     *)
(* outside the Vec, an unwrap of None and (with overflow checks on) an     *)
(* arithmetic overflow panic: the operation is abandoned and the program   *)
(* stops.                                                                  *)
(*                                                                         *)
(* The module also models the slotted page of src/storage/page.rs (the     *)
(* variables page, returned, page_ops, image, loaded, records; records     *)
(* maps each slot index an insert_record call has returned to the bytes    *)
(* that call was given).  The two programs share no state: a               *)
(* specification of the one leaves the variables of the other at their     *)
(* initial values.                                                         *)
(*                                                                         *)
(* The chunk header codec of crates/storage (chunk.rs,                     *)
(* chunk_impl_margin.rs) is the third program: chunk_header is the header  *)
(* given, chunk_bytes what serialize_header returned for it and chunk_read *)
(* what deserialize_header returned for those bytes.  A u32 is an integer; *)
(* a u64 is the record [lo, hi] of its two 32-bit words, lo + 2^32 * hi.   *)
(*                                                                         *)
(* Further programs, each with variables of its own: get_fletcher32 of     *)
(* data_util.rs (fl_call, fl_sums), the chunk footer codec of              *)
(* chunk_impl_margin.rs (footer, ..), the FileStore of file_store_i12n.rs  *)
(* (fs_file, ..), the Value codec of src/schema/value.rs (val, ..), the    *)
(* PagedCollection of src/storage/paged_collection.rs over the FileManager *)
(* of file_manager.rs (collection, ..) and the second chunk header codec,  *)
(* the one of chunk_impl_header_footer.rs (hf_bytes, ..).                  *)
(***************************************************************************)
EXTENDS Integers, Sequences, FiniteSets, TLC

VARIABLES t, overflow_checks, nodes, free_list, root_id, panicked, stored, ops, interleaved, deleted,
          descent,
          page, returned, page_ops, image, loaded, records,
          chunk_header, chunk_bytes, chunk_read,
          fl_call, fl_sums,
          footer, footer_bytes, footer_damage, footer_read, footer_verified,
          fs_file, fs_store, fs_call, fs_result, fs_log,
          val, val_ser, val_read,
          collection, pc_result, pc_inserted,
          hf_bytes, hf_read, margin_read

btree_vars == <<t, overflow_checks, nodes, free_list, root_id, panicked, stored, ops, interleaved, deleted,
                descent>>

page_vars == <<page, returned, page_ops, image, loaded, records>>

chunk_vars == <<chunk_header, chunk_bytes, chunk_read>>

fletcher_vars == <<fl_call, fl_sums>>

footer_vars == <<footer, footer_bytes, footer_damage, footer_read, footer_verified>>

file_vars == <<fs_file, fs_store, fs_call, fs_result, fs_log>>

value_vars == <<val, val_ser, val_read>>

collection_vars == <<collection, pc_result, pc_inserted>>

codec_vars == <<hf_bytes, hf_read, margin_read>>

\* the variables of the programs other than the B-tree, the page and the
\* chunk header codec
rest_vars == <<fletcher_vars, footer_vars, file_vars, value_vars, collection_vars, codec_vars>>

vars == <<t, overflow_checks, nodes, free_list, root_id, panicked, stored, ops, interleaved, deleted,
          descent, page, returned, page_ops, image, loaded, records,
          chunk_header, chunk_bytes, chunk_read,
          fl_call, fl_sums,
          footer, footer_bytes, footer_damage, footer_read, footer_verified,
          fs_file, fs_store, fs_call, fs_result, fs_log,
          val, val_ser, val_read,
          collection, pc_result, pc_inserted,
          hf_bytes, hf_read, margin_read>>

\* no checksum has been asked for
NoFletcher ==
  /\ fl_call = <<>>
  /\ fl_sums = <<>>

\* no chunk footer has been given
NoFooter ==
  /\ footer = <<>>
  /\ footer_bytes = <<>>
  /\ footer_damage = [kind |-> "none", bit |-> 0]
  /\ footer_read = <<"none">>
  /\ footer_verified = "none"

\* no file store has been asked for
NoFileStore ==
  /\ fs_file = <<>>
  /\ fs_store = <<>>
  /\ fs_call = <<>>
  /\ fs_result = <<"none">>
  /\ fs_log = <<>>

\* no Value has been given
NoValue ==
  /\ val = <<>>
  /\ val_ser = <<"none">>
  /\ val_read = <<"none">>

\* no PagedCollection has been created
NoCollection ==
  /\ collection = <<>>
  /\ pc_result = <<"none">>
  /\ pc_inserted = <<>>

\* the codec of chunk_impl_header_footer.rs has not been called
NoCodecs ==
  /\ hf_bytes = <<>>
  /\ hf_read = <<"none">>
  /\ margin_read = <<"none">>

\* the programs of rest_vars have not started
NoRest == NoFletcher /\ NoFooter /\ NoFileStore /\ NoValue /\ NoCollection /\ NoCodecs

\* ------------------------------------------------------------------ bounds
MaxKey == 4
MaxInsertKey == 9
MaxOps == 7
MaxLoad == 12
MaxTail == 2
MaxDepth == 6
MaxDegree == 3
MaxPageOps == 3
MaxFletcherLen == 5
MaxFletcherOffset == 2
MaxFileOps == 4

MaxInserts == 2

Keys == 0..MaxKey
InsertKeys == 0..MaxInsertKey
LoadKeys == 0..2
Degrees == 2..MaxDegree

\* the lengths of the records: short ones, the longest that fits a page that
\* holds one empty record (4064) and the shortest that does not fit a new
\* page (4069)
RecordLens == {0, 1, 8, 4064, 4069}
FirstBytes == {1, 200}
PageTypes == 1..4
CollectionIds == {0, 16909060}
\* the bytes of the short slices given to get_fletcher32
FletcherBytes == {0, 1, 255}

\* usize arithmetic.  The width is reduced from 64 bits: the only values the
\* program computes are Vec lengths, key counts and their wrap-arounds, and
\* every comparison of a wrapped count is with a small number.
UsizeModulus == 2 ^ 16
UsizeMax == UsizeModulus - 1

Min(a, b) == IF a < b THEN a ELSE b

Max(a, b) == IF a > b THEN a ELSE b

\* the value of the page variable while no page has been created
NoPage == [header |-> <<>>, slots |-> <<>>, data |-> <<>>]

\* the value of the image variable while the page has not been written
NoImage == [len |-> 0, nz |-> <<>>]

\* ------------------------------------------------------------ the tree value
\* A tree value bt is [nodes, free_list, root_id, panic, descent]; panic is
\* "none" while the running operation has not panicked; descent records what
\* the running operation has descended into: "full" after a recursive step of
\* insert into a child with 2t-1 keys, "minimal" after a recursive step of
\* delete into a child with fewer than t keys.
Cur == [nodes |-> nodes, free_list |-> free_list, root_id |-> root_id, panic |-> "none",
        descent |-> "none"]

Panic(bt, why) == [bt EXCEPT !.panic = why]

Node(bt, id) == bt.nodes[id + 1]

Zeros(len) == [j \in 1..len |-> 0]

\* Vec::remove(index)
VecRemove(v, i) == [j \in 1..(Len(v) - 1) |-> IF j <= i THEN v[j] ELSE v[j + 1]]

\* Vec::insert(0, x)
VecInsertFront(v, x) == <<x>> \o v

\* n += 1 and n -= 1 on usize: "overflow" stands for the panic of a build with
\* overflow checks, otherwise the value wraps.
Add1(x) == IF x = UsizeMax THEN (IF overflow_checks THEN -1 ELSE 0) ELSE x + 1

Sub1(x) == IF x = 0 THEN (IF overflow_checks THEN -1 ELSE UsizeMax) ELSE x - 1

\* for i in (lo..hi).rev() { v[i + 1] = v[i]; } -- the first iteration reads
\* v[hi - 1] and writes v[hi], so the loop panics iff it runs and hi >= len.
ShiftPanics(v, lo, hi) == lo < hi /\ hi >= Len(v)

ShiftRight(v, lo, hi) == [j \in 1..Len(v) |-> IF j - 1 > lo /\ j - 1 <= hi THEN v[j - 1] ELSE v[j]]

\* while pos < n && keys[pos] < key { pos += 1 }: the value of pos when the
\* loop ends, or Len(keys) when it reads past the Vec (pos < n there).
ScanPos(keys, n, key) ==
  LET lim == Min(n, Len(keys))
      stops == {i \in 0..lim : i = lim \/ keys[i + 1] >= key}
  IN  CHOOSE i \in stops : \A j \in stops : i <= j

ScanPanics(keys, n, key) == ScanPos(keys, n, key) = Len(keys) /\ Len(keys) < n

\* the recursive call self.recursive_insert(child_id, key)
EnterInsert(bt, child_id) ==
  IF Node(bt, child_id).n = 2 * t - 1 THEN [bt EXCEPT !.descent = "full"] ELSE bt

\* the recursive call self.recursive_delete(child_id, key)
EnterDelete(bt, child_id) ==
  IF Node(bt, child_id).n < t THEN [bt EXCEPT !.descent = "minimal"] ELSE bt

\* ---------------------------------------------------------------- arena.rs
EmptyNode == [n |-> 0, is_leaf |-> TRUE, keys |-> Zeros(2 * t - 1), children |-> Zeros(2 * t)]

\* Arena::allocate_node: [bt, id]
allocate_node(bt) ==
  IF Len(bt.free_list) > 0
  THEN [bt |-> [bt EXCEPT !.free_list = SubSeq(@, 1, Len(@) - 1)],
        id |-> bt.free_list[Len(bt.free_list)]]
  ELSE [bt |-> [bt EXCEPT !.nodes = Append(@, EmptyNode)],
        id |-> Len(bt.nodes)]

\* Arena::deallocate_node
deallocate_node(bt, id) ==
  [bt EXCEPT !.free_list = Append(@, id), !.nodes[id + 1] = EmptyNode]

\* --------------------------------------------------------- btree_search.rs
RECURSIVE recursive_search(_, _, _, _)
\* Some((node_id, index)) is <<"some", node_id, index>>, None is <<"none">>;
\* <<"panic">> when an index is out of the Vec or the recursion never ends
\* (fuel counts the nodes of the arena: a longer path repeats a node, and the
\* walk is deterministic).
recursive_search(bt, node_id, key, fuel) ==
  LET node == Node(bt, node_id)
      index == ScanPos(node.keys, node.n, key)
  IN  IF fuel = 0 \/ ScanPanics(node.keys, node.n, key) THEN <<"panic">>
      ELSE IF index < node.n /\ node.keys[index + 1] = key THEN <<"some", node_id, index>>
      ELSE IF node.is_leaf THEN <<"none">>
      ELSE IF index >= Len(node.children) THEN <<"panic">>
      ELSE recursive_search(bt, node.children[index + 1], key, fuel - 1)

search(bt, key) == recursive_search(bt, bt.root_id, key, Len(bt.nodes) + 1)

\* --------------------------------------------------------- btree_insert.rs
split_child(bt, parent_id, child_index) ==
  LET allocated(a) ==
        LET new_sibling_id == a.id
            p1 == Node(a.bt, parent_id)
        IN  IF child_index >= Len(p1.children) THEN Panic(bt, "index")
            ELSE
            LET child_id == p1.children[child_index + 1]
                c1 == Node(a.bt, child_id)
            IN  IF t - 1 >= Len(c1.keys) THEN Panic(bt, "index")
                ELSE
                LET is_leaf == c1.is_leaf
                    median_key == c1.keys[t]
                    \* new_sibling.is_leaf and new_sibling.n are set: b2
                    copy_keys(b2) ==
                      LET s2 == Node(b2, new_sibling_id)
                          c2 == Node(b2, child_id)
                      IN  \* keys[i] = child.keys[i + t] for i in 0..t-1
                          IF t - 1 > Len(s2.keys) \/ 2 * t - 1 > Len(c2.keys) THEN Panic(bt, "index")
                          ELSE
                          LET copy_children(b3) ==
                                LET s3 == Node(b3, new_sibling_id)
                                    c3 == Node(b3, child_id)
                                IN  IF ~is_leaf /\ (t > Len(s3.children) \/ 2 * t > Len(c3.children))
                                    THEN Panic(bt, "index")
                                    ELSE
                                    LET link(b5) ==
                                          LET p5 == Node(b5, parent_id)
                                          IN  IF \/ ShiftPanics(p5.children, child_index + 1, p5.n + 1)
                                                 \/ child_index + 1 >= Len(p5.children)
                                                 \/ ShiftPanics(p5.keys, child_index, p5.n)
                                                 \/ child_index >= Len(p5.keys)
                                                 \/ Add1(p5.n) = -1
                                              THEN Panic(bt, "index")
                                              ELSE [b5 EXCEPT
                                                      !.nodes[parent_id + 1].children =
                                                         [ShiftRight(@, child_index + 1, p5.n + 1) EXCEPT ![child_index + 2] = new_sibling_id],
                                                      !.nodes[parent_id + 1].keys =
                                                         [ShiftRight(@, child_index, p5.n) EXCEPT ![child_index + 1] = median_key],
                                                      !.nodes[parent_id + 1].n = Add1(p5.n)]
                                    IN  link([b3 EXCEPT
                                                !.nodes[new_sibling_id + 1].children =
                                                   IF is_leaf THEN @
                                                   ELSE [j \in 1..Len(@) |-> IF j <= t THEN c3.children[j + t] ELSE @[j]],
                                                !.nodes[child_id + 1].n = t - 1])
                          IN  copy_children([b2 EXCEPT !.nodes[new_sibling_id + 1].keys =
                                               [j \in 1..Len(@) |-> IF j <= t - 1 THEN c2.keys[j + t] ELSE @[j]]])
                IN  copy_keys([a.bt EXCEPT !.nodes[new_sibling_id + 1].is_leaf = is_leaf,
                                           !.nodes[new_sibling_id + 1].n = t - 1])
  IN  allocated(allocate_node(bt))

\* split_root without self.root_id = new_root_id
split_root_keeps_root(bt) ==
  LET a == allocate_node(bt)
      new_root_id == a.id
      b1 == [a.bt EXCEPT !.nodes[new_root_id + 1].is_leaf = FALSE,
                         !.nodes[new_root_id + 1].n = 0]
  IN  IF Len(Node(b1, new_root_id).children) = 0 THEN Panic(bt, "index")
      ELSE split_child([b1 EXCEPT !.nodes[new_root_id + 1].children[1] = bt.root_id],
                       new_root_id, 0)

split_root(bt) ==
  LET a == allocate_node(bt)
      new_root_id == a.id
      b1 == [a.bt EXCEPT !.nodes[new_root_id + 1].is_leaf = FALSE,
                         !.nodes[new_root_id + 1].n = 0]
  IN  IF Len(Node(b1, new_root_id).children) = 0 THEN Panic(bt, "index")
      ELSE split_child([b1 EXCEPT !.nodes[new_root_id + 1].children[1] = bt.root_id,
                                  !.root_id = new_root_id],
                       new_root_id, 0)

\* insert_into_leaf_node without the loop that shifts the tail to the right
insert_into_leaf_node_noshift(bt, node_id, key) ==
  LET node == Node(bt, node_id)
      n == node.n
      pos == ScanPos(node.keys, n, key)
  IN  IF ScanPanics(node.keys, n, key) \/ pos >= Len(node.keys) \/ Add1(n) = -1
      THEN Panic(bt, "index")
      ELSE [bt EXCEPT !.nodes[node_id + 1].keys[pos + 1] = key,
                      !.nodes[node_id + 1].n = Add1(n)]

insert_into_leaf_node(bt, node_id, key) ==
  LET node == Node(bt, node_id)
      n == node.n
      pos == ScanPos(node.keys, n, key)
  IN  IF \/ ScanPanics(node.keys, n, key)
         \/ ShiftPanics(node.keys, pos, n)
         \/ pos >= Len(node.keys)
         \/ Add1(n) = -1
      THEN Panic(bt, "index")
      ELSE [bt EXCEPT !.nodes[node_id + 1].keys = [ShiftRight(node.keys, pos, n) EXCEPT ![pos + 1] = key],
                      !.nodes[node_id + 1].n = Add1(n)]

RECURSIVE recursive_insert(_, _, _, _)
\* recursive_insert with insert_into_internal_node inlined (they are mutually
\* recursive in the source); fuel bounds the depth of the recursion.
recursive_insert(bt, node_id, key, fuel) ==
  IF bt.panic # "none" THEN bt
  ELSE IF fuel = 0 THEN Panic(bt, "stack")
  ELSE IF Node(bt, node_id).is_leaf THEN insert_into_leaf_node(bt, node_id, key)
  ELSE
  LET node == Node(bt, node_id)
      n == node.n
      \* while pos < n && key > keys[pos]
      pos0 == ScanPos(node.keys, n, key)
  IN  IF ScanPanics(node.keys, n, key) \/ pos0 >= Len(node.children) THEN Panic(bt, "index")
      ELSE
      LET child_id0 == node.children[pos0 + 1]
          full == Node(bt, child_id0).n = 2 * t - 1
          descend(b1) ==
            IF b1.panic # "none" THEN b1
            ELSE IF full /\ pos0 >= Len(Node(b1, node_id).keys) THEN Panic(bt, "index")
            ELSE
            LET pos == IF full /\ key > Node(b1, node_id).keys[pos0 + 1] THEN pos0 + 1 ELSE pos0
            IN  IF pos >= Len(Node(b1, node_id).children) THEN Panic(bt, "index")
                ELSE recursive_insert(EnterInsert(b1, Node(b1, node_id).children[pos + 1]),
                                      Node(b1, node_id).children[pos + 1], key, fuel - 1)
      IN  descend(IF full THEN split_child(bt, node_id, pos0) ELSE bt)

insert(bt, key) ==
  IF Node(bt, bt.root_id).n = 2 * t - 1
  THEN LET descend(b1) == IF b1.panic # "none" THEN b1 ELSE recursive_insert(b1, b1.root_id, key, MaxDepth)
       IN  descend(split_root(bt))
  ELSE recursive_insert(bt, bt.root_id, key, MaxDepth)

\* --------------------------------------------------------- btree_delete.rs
\* keys.iter().position(|&x| x == key): the first index of the WHOLE Vec that
\* holds key, -1 for None.
position(keys, key) ==
  LET hits == {i \in 0..(Len(keys) - 1) : keys[i + 1] = key}
  IN  IF hits = {} THEN -1 ELSE CHOOSE i \in hits : \A j \in hits : i <= j

\* a + b on usize: -1 for the panic of a build with overflow checks.
AddUsize(a, b) == IF a + b > UsizeMax THEN (IF overflow_checks THEN -1 ELSE (a + b) % UsizeModulus) ELSE a + b

RECURSIVE LastLeaf(_, _, _)
\* the leaf find_predecessor stops at: node_id = children[n] while !is_leaf;
\* -1 when children[n] is out of the Vec, -2 when the loop never ends.
LastLeaf(bt, node_id, fuel) ==
  LET node == Node(bt, node_id)
  IN  IF node.is_leaf THEN node_id
      ELSE IF fuel = 0 THEN -2
      ELSE IF node.n >= Len(node.children) THEN -1
      ELSE LastLeaf(bt, node.children[node.n + 1], fuel - 1)

RECURSIVE FirstLeaf(_, _, _)
\* the leaf find_successor stops at: node_id = children[0] while !is_leaf.
FirstLeaf(bt, node_id, fuel) ==
  LET node == Node(bt, node_id)
  IN  IF node.is_leaf THEN node_id
      ELSE IF fuel = 0 THEN -2
      ELSE IF Len(node.children) = 0 THEN -1
      ELSE FirstLeaf(bt, node.children[1], fuel - 1)

\* keys[n - 1] of the last leaf; -1 for a panic, -2 for an endless loop.
find_predecessor(bt, parent_id) ==
  LET leaf == LastLeaf(bt, parent_id, Len(bt.nodes))
  IN  IF leaf < 0 THEN leaf
      ELSE LET node == Node(bt, leaf)
           IN  IF node.n = 0 \/ node.n - 1 >= Len(node.keys) THEN -1 ELSE node.keys[node.n]

\* keys[0] of the first leaf; -1 for a panic, -2 for an endless loop.
find_successor(bt, parent_id) ==
  LET leaf == FirstLeaf(bt, parent_id, Len(bt.nodes))
  IN  IF leaf < 0 THEN leaf
      ELSE LET node == Node(bt, leaf)
           IN  IF Len(node.keys) = 0 THEN -1 ELSE node.keys[1]

merge_children(bt, parent_id, index) ==
  LET p0 == Node(bt, parent_id)
  IN  IF index + 1 >= Len(p0.children) \/ index >= Len(p0.keys) THEN Panic(bt, "index")
      ELSE
      LET left_child_id == p0.children[index + 1]
          right_child_id == p0.children[index + 2]
          left_child_n == Node(bt, left_child_id).n
          right_child_n == Node(bt, right_child_id).n
          sum == AddUsize(left_child_n, right_child_n)
          new_n == IF sum = -1 THEN -1 ELSE AddUsize(sum, 1)
          \* the parent's key is in the left child: b1
          extend_keys(b1) ==
            \* keys.extend(right_child.keys.clone())
            LET extend_children(b2) ==
                  \* children_ids.extend(right_child.children_ids.clone())
                  LET unlink(b3) ==
                        LET p3 == Node(b3, parent_id)
                        IN  IF index >= Len(p3.keys) \/ index + 1 >= Len(p3.children) THEN Panic(bt, "index")
                            ELSE IF new_n = -1 THEN Panic(bt, "overflow")
                            ELSE
                            LET decrement(b5) ==
                                  LET parent_n == Sub1(Node(b5, parent_id).n)
                                  IN  IF parent_n = -1 THEN Panic(bt, "overflow")
                                      ELSE deallocate_node([b5 EXCEPT !.nodes[parent_id + 1].n = parent_n],
                                                           right_child_id)
                            IN  decrement([b3 EXCEPT !.nodes[parent_id + 1].keys = VecRemove(@, index),
                                                     !.nodes[parent_id + 1].children = VecRemove(@, index + 1),
                                                     !.nodes[left_child_id + 1].n = new_n])
                  IN  unlink(IF Node(b2, left_child_id).is_leaf THEN b2
                             ELSE [b2 EXCEPT !.nodes[left_child_id + 1].children =
                                     @ \o Node(b2, right_child_id).children])
            IN  extend_children([b1 EXCEPT !.nodes[left_child_id + 1].keys = @ \o Node(b1, right_child_id).keys])
      IN  IF left_child_n >= Len(Node(bt, left_child_id).keys) THEN Panic(bt, "index")
          ELSE extend_keys([bt EXCEPT !.nodes[left_child_id + 1].keys[left_child_n + 1] = p0.keys[index + 1]])

borrow_from_left_sibling(bt, parent_id, child_index) ==
  LET p0 == Node(bt, parent_id)
      child_id == p0.children[child_index + 1]
      left_sibling_id == p0.children[child_index]
      \* child.keys.insert(0, parent_key) is done: b1
      pop_key(b1) ==
        LET l1 == Node(b1, left_sibling_id)
        IN  \* left_sibling.keys.pop().unwrap(): the LAST element of the Vec
            IF Len(l1.keys) = 0 THEN Panic(bt, "unwrap")
            ELSE
            LET left_sibling_key == l1.keys[Len(l1.keys)]
                set_parent_key(b2) ==
                  IF child_index - 1 >= Len(Node(b2, parent_id).keys) THEN Panic(bt, "index")
                  ELSE
                  LET move_child(b3) ==
                        LET moves == ~Node(b3, child_id).is_leaf
                            l3 == Node(b3, left_sibling_id)
                        IN  IF moves /\ Len(l3.children) = 0 THEN Panic(bt, "unwrap")
                            ELSE
                            LET left_sibling_child_id == l3.children[Len(l3.children)]
                                count(b5) ==
                                  LET child_n == Add1(Node(b5, child_id).n)
                                  IN  IF child_n = -1 THEN Panic(bt, "overflow")
                                      ELSE
                                      LET count_left(b6) ==
                                            LET left_n == Sub1(Node(b6, left_sibling_id).n)
                                            IN  IF left_n = -1 THEN Panic(bt, "overflow")
                                                ELSE [b6 EXCEPT !.nodes[left_sibling_id + 1].n = left_n]
                                      IN  count_left([b5 EXCEPT !.nodes[child_id + 1].n = child_n])
                            IN  count(IF moves
                                      THEN [b3 EXCEPT
                                              !.nodes[left_sibling_id + 1].children = SubSeq(@, 1, Len(@) - 1),
                                              !.nodes[child_id + 1].children = VecInsertFront(@, left_sibling_child_id)]
                                      ELSE b3)
                  IN  move_child([b2 EXCEPT !.nodes[parent_id + 1].keys[child_index] = left_sibling_key])
            IN  set_parent_key([b1 EXCEPT !.nodes[left_sibling_id + 1].keys = SubSeq(@, 1, Len(@) - 1)])
  IN  IF child_index - 1 >= Len(p0.keys) THEN Panic(bt, "index")
      ELSE pop_key([bt EXCEPT !.nodes[child_id + 1].keys = VecInsertFront(@, p0.keys[child_index])])

borrow_from_right_sibling(bt, parent_id, child_index) ==
  LET p0 == Node(bt, parent_id)
  IN  IF child_index + 1 >= Len(p0.children) \/ child_index >= Len(p0.keys) THEN Panic(bt, "index")
      ELSE
      LET child_id == p0.children[child_index + 1]
          right_sibling_id == p0.children[child_index + 2]
          parent_key == p0.keys[child_index + 1]
          \* child.keys.push(parent_key) is done, at the END of the Vec: b1
          remove_key(b1) ==
            LET r1 == Node(b1, right_sibling_id)
            IN  \* right_sibling.keys.remove(0)
                IF Len(r1.keys) = 0 THEN Panic(bt, "index")
                ELSE
                LET right_sibling_key == r1.keys[1]
                    set_parent_key(b2) ==
                      IF child_index >= Len(Node(b2, parent_id).keys) THEN Panic(bt, "index")
                      ELSE
                      LET move_child(b3) ==
                            LET moves == ~Node(b3, child_id).is_leaf
                                r3 == Node(b3, right_sibling_id)
                            IN  IF moves /\ Len(r3.children) = 0 THEN Panic(bt, "index")
                                ELSE
                                LET right_sibling_child_id == r3.children[1]
                                    count(b5) ==
                                      LET child_n == Add1(Node(b5, child_id).n)
                                      IN  IF child_n = -1 THEN Panic(bt, "overflow")
                                          ELSE
                                          LET count_right(b6) ==
                                                LET right_n == Sub1(Node(b6, right_sibling_id).n)
                                                IN  IF right_n = -1 THEN Panic(bt, "overflow")
                                                    ELSE [b6 EXCEPT !.nodes[right_sibling_id + 1].n = right_n]
                                          IN  count_right([b5 EXCEPT !.nodes[child_id + 1].n = child_n])
                                IN  count(IF moves
                                          THEN [b3 EXCEPT
                                                  !.nodes[right_sibling_id + 1].children = VecRemove(@, 0),
                                                  !.nodes[child_id + 1].children = Append(@, right_sibling_child_id)]
                                          ELSE b3)
                      IN  move_child([b2 EXCEPT !.nodes[parent_id + 1].keys[child_index + 1] = right_sibling_key])
                IN  set_parent_key([b1 EXCEPT !.nodes[right_sibling_id + 1].keys = VecRemove(@, 0)])
      IN  remove_key([bt EXCEPT !.nodes[child_id + 1].keys = Append(@, parent_key)])

\* fix_child is entered with child_index < Len(parent.children): the caller
\* has just read children_ids[child_index].
fix_child(bt, parent_id, child_index) ==
  LET parent == Node(bt, parent_id)
  IN  IF child_index > 0 /\ Node(bt, parent.children[child_index]).n >= t
      THEN borrow_from_left_sibling(bt, parent_id, child_index)
      ELSE IF child_index < parent.n /\ child_index + 1 >= Len(parent.children)
      THEN Panic(bt, "index")
      ELSE IF child_index < parent.n /\ Node(bt, parent.children[child_index + 2]).n >= t
      THEN borrow_from_right_sibling(bt, parent_id, child_index)
      ELSE IF child_index > 0
      THEN merge_children(bt, parent_id, child_index - 1)
      ELSE merge_children(bt, parent_id, child_index)

RECURSIVE recursive_delete(_, _, _, _)
\* recursive_delete with delete_from_internal_node inlined (they are mutually
\* recursive in the source); fuel bounds the depth of the recursion.
recursive_delete(bt, node_id, key, fuel) ==
  IF bt.panic # "none" THEN bt
  ELSE IF fuel = 0 THEN Panic(bt, "stack")
  ELSE
  LET node == Node(bt, node_id)
      index == position(node.keys, key)
  IN  IF node.is_leaf
      THEN IF index = -1 THEN bt
           ELSE IF Sub1(node.n) = -1 THEN Panic(bt, "overflow")
           ELSE [bt EXCEPT !.nodes[node_id + 1].keys = VecRemove(@, index),
                           !.nodes[node_id + 1].n = Sub1(node.n)]
      ELSE IF index # -1
      THEN \* Case 1: delete_from_internal_node(node_id, index)
           IF index + 1 >= Len(node.children) THEN Panic(bt, "index")
           ELSE
           LET left_child_id == node.children[index + 1]
               right_child_id == node.children[index + 2]
           IN  IF Node(bt, left_child_id).n >= t
               THEN LET predecessor == find_predecessor(bt, left_child_id)
                    IN  IF predecessor = -1 THEN Panic(bt, "index")
                        ELSE IF predecessor = -2 THEN Panic(bt, "hang")
                        ELSE recursive_delete(EnterDelete([bt EXCEPT !.nodes[node_id + 1].keys[index + 1] = predecessor],
                                                          left_child_id),
                                              left_child_id, predecessor, fuel - 1)
               ELSE IF Node(bt, right_child_id).n >= t
               THEN LET successor == find_successor(bt, right_child_id)
                    IN  IF successor = -1 THEN Panic(bt, "index")
                        ELSE IF successor = -2 THEN Panic(bt, "hang")
                        ELSE recursive_delete(EnterDelete([bt EXCEPT !.nodes[node_id + 1].keys[index + 1] = successor],
                                                          right_child_id),
                                              right_child_id, successor, fuel - 1)
               ELSE LET descend(b1) ==
                          IF b1.panic # "none" THEN b1
                          ELSE recursive_delete(EnterDelete(b1, left_child_id), left_child_id, key, fuel - 1)
                    IN  descend(merge_children(bt, node_id, index))
      ELSE \* Case 2: the key is not in this node
           LET child_index0 == ScanPos(node.keys, node.n, key)
           IN  IF ScanPanics(node.keys, node.n, key) \/ child_index0 >= Len(node.children)
               THEN Panic(bt, "index")
               ELSE
               LET child_id0 == node.children[child_index0 + 1]
                   \* the position is recalculated after fix_child
                   descend(b1) ==
                     IF b1.panic # "none" THEN b1
                     ELSE
                     LET node1 == Node(b1, node_id)
                         child_index == ScanPos(node1.keys, node1.n, key)
                     IN  IF ScanPanics(node1.keys, node1.n, key) \/ child_index >= Len(node1.children)
                         THEN Panic(bt, "index")
                         ELSE recursive_delete(EnterDelete(b1, node1.children[child_index + 1]),
                                               node1.children[child_index + 1], key, fuel - 1)
               IN  IF Node(bt, child_id0).n < t
                   THEN descend(fix_child(bt, node_id, child_index0))
                   ELSE recursive_delete(EnterDelete(bt, child_id0), child_id0, key, fuel - 1)

delete(bt, key) == recursive_delete(bt, bt.root_id, key, MaxDepth)

\* ------------------------------------------------------------------- state
\* Btree::new(minimum_degree): one allocated leaf, the root.
Init ==
  /\ t \in Degrees
  /\ overflow_checks \in BOOLEAN
  /\ nodes = <<[n |-> 0, is_leaf |-> TRUE, keys |-> Zeros(2 * t - 1), children |-> Zeros(2 * t)]>>
  /\ free_list = <<>>
  /\ root_id = 0
  /\ panicked = "none"
  /\ stored = {}
  /\ ops = 0
  /\ interleaved = FALSE
  /\ deleted = FALSE
  /\ descent = "none"
  /\ page = NoPage
  /\ returned = <<"none">>
  /\ page_ops = 0
  /\ image = NoImage
  /\ loaded = <<"none">>
  /\ records = <<>>
  /\ chunk_header = <<>>
  /\ chunk_bytes = <<>>
  /\ chunk_read = <<"none">>
  /\ NoRest

\* The tree variables after an operation that returned bt; a panic ends the
\* program, the tree it leaves behind is never looked at again.
Becomes(bt) ==
  /\ descent' = bt.descent
  /\ IF bt.panic # "none"
     THEN /\ panicked' = bt.panic
          /\ UNCHANGED <<nodes, free_list, root_id>>
     ELSE /\ nodes' = bt.nodes
          /\ free_list' = bt.free_list
          /\ root_id' = bt.root_id
          /\ UNCHANGED panicked

\* Btree::insert(key)
Insert(key) ==
  /\ panicked = "none"
  /\ Becomes(insert(Cur, key))
  /\ stored' = stored \cup {key}
  /\ ops' = ops + 1
  /\ interleaved' = (interleaved \/ deleted)
  /\ UNCHANGED <<t, overflow_checks, deleted, page_vars, chunk_vars, rest_vars>>

\* Btree::delete(key)
Delete(key) ==
  /\ panicked = "none"
  /\ Becomes(delete(Cur, key))
  /\ stored' = stored \ {key}
  /\ ops' = ops + 1
  /\ deleted' = TRUE
  /\ UNCHANGED <<t, overflow_checks, interleaved, page_vars, chunk_vars, rest_vars>>

\* any sequence of inserts and deletes
Next == \E key \in Keys : ops < MaxOps /\ (Insert(key) \/ Delete(key))

Spec == Init /\ [][Next]_vars

\* inserts of distinct keys only
InsertOnly == \E key \in InsertKeys : key \notin stored /\ Insert(key)

SpecInsert == Init /\ [][InsertOnly]_vars

\* inserts of keys that are not stored and deletes of keys that are
NextDistinct ==
  \E key \in Keys : ops < MaxOps /\ ((key \notin stored /\ Insert(key)) \/ (key \in stored /\ Delete(key)))

SpecDistinct == Init /\ [][NextDistinct]_vars

\* a load of MaxLoad inserts, then MaxTail operations of any kind
NextLoad ==
  \E key \in LoadKeys :
     \/ ops < MaxLoad + MaxTail /\ Insert(key)
     \/ ops >= MaxLoad /\ ops < MaxLoad + MaxTail /\ Delete(key)

SpecLoad == Init /\ [][NextLoad]_vars

\* ------------------------------------------------------- what a state holds
\* the keys search finds
Found(key) == search(Cur, key)[1] = "some"

FoundKeys == {key \in 0..(MaxInsertKey + 1) : Found(key)}

\* children[0..n] of an internal node, as far as the Vec goes
ChildIds(id) ==
  LET node == nodes[id + 1]
  IN  IF node.is_leaf THEN {}
      ELSE {node.children[i + 1] : i \in 0..Min(node.n, Len(node.children) - 1)}

RECURSIVE ReachFrom(_, _)
ReachFrom(frontier, seen) ==
  IF frontier = {} THEN seen
  ELSE LET next == (UNION {ChildIds(id) : id \in frontier}) \ (seen \cup frontier)
       IN  ReachFrom(next, seen \cup frontier)

\* the nodes reachable from the root
Reach == ReachFrom({root_id}, {})

RECURSIVE LeafDepthsFrom(_, _, _)
\* the depths at which a walk from the root meets a leaf; walks of up to
\* twice the number of nodes see a leaf on a cycle at two depths
LeafDepthsFrom(level, depth, fuel) ==
  IF level = {} \/ fuel = 0 THEN {}
  ELSE (IF \E id \in level : nodes[id + 1].is_leaf THEN {depth} ELSE {})
       \cup LeafDepthsFrom(UNION {ChildIds(id) : id \in level}, depth + 1, fuel - 1)

LeafDepths == LeafDepthsFrom({root_id}, 0, 2 * Len(nodes) + 1)

RECURSIVE HeightFrom(_, _)
\* the number of levels on the leftmost path, 0 when it never reaches a leaf
HeightFrom(id, fuel) ==
  IF nodes[id + 1].is_leaf THEN 1
  ELSE IF fuel = 0 \/ Len(nodes[id + 1].children) = 0 THEN 0
  ELSE LET below == HeightFrom(nodes[id + 1].children[1], fuel - 1)
       IN  IF below = 0 THEN 0 ELSE below + 1

Height == HeightFrom(root_id, Len(nodes))

LiveKeys(id) == {nodes[id + 1].keys[i] : i \in 1..Min(nodes[id + 1].n, Len(nodes[id + 1].keys))}

RECURSIVE SubtreeKeys(_, _)
SubtreeKeys(id, fuel) ==
  IF fuel = 0 THEN {}
  ELSE LiveKeys(id) \cup UNION {SubtreeKeys(c, fuel - 1) : c \in ChildIds(id)}

RECURSIVE SumN(_)
SumN(ids) ==
  IF ids = {} THEN 0
  ELSE LET id == CHOOSE x \in ids : TRUE IN nodes[id + 1].n + SumN(ids \ {id})

\* the number of keys the reachable nodes hold
TotalKeys == SumN(Reach)

RootFull == nodes[root_id + 1].n = 2 * t - 1

\* ---------------------------------------------------- src/storage/page.rs
PAGE_SIZE == 4096

PAGE_HEADER_SIZE == 24

MAX_PAGE_DATA_SIZE == PAGE_SIZE - PAGE_HEADER_SIZE

\* 0x4B454E43
MAGIC_NUMBER == 1262833219

U16Modulus == 65536

\* A Vec<u8> or [u8; N] that holds a record, the data section or a page is a
\* value [len, nz]: len is its length and nz maps the 0-based indexes of its
\* non-zero bytes to those bytes; every other byte is 0.  Two such values are
\* equal iff the byte strings are.  Arrays of a few bytes (a header, a slot,
\* an integer) are sequences.
ZeroBytes(len) == [len |-> len, nz |-> [i \in {} |-> 0]]

ByteAt(v, i) == IF i \in DOMAIN v.nz THEN v.nz[i] ELSE 0

\* &v[lo..hi] as a sequence
ArrayOf(v, lo, hi) == [j \in 1..(hi - lo) |-> ByteAt(v, lo + j - 1)]

\* &v[lo..hi]
Slice(v, lo, hi) ==
  [len |-> hi - lo,
   nz |-> [i \in {k - lo : k \in {k \in DOMAIN v.nz : k >= lo /\ k < hi}} |-> v.nz[i + lo]]]

\* dst[start .. start + src.len()].copy_from_slice(src), src an array
CopyFromArray(dst, start, src) ==
  [dst EXCEPT !.nz =
     [i \in {k \in DOMAIN @ : k < start \/ k >= start + Len(src)}
             \cup {start + j - 1 : j \in {k \in 1..Len(src) : src[k] # 0}} |->
        IF i >= start /\ i < start + Len(src) THEN src[i - start + 1] ELSE @[i]]]

\* dst[start .. start + src.len()].copy_from_slice(src)
CopyFromSlice(dst, start, src) ==
  [dst EXCEPT !.nz =
     [i \in {k \in DOMAIN @ : k < start \/ k >= start + src.len}
             \cup {start + k : k \in DOMAIN src.nz} |->
        IF i >= start /\ i < start + src.len THEN src.nz[i - start] ELSE @[i]]]

\* array[start .. start + Len(src)].copy_from_slice(src) on arrays
CopyIntoArray(dst, start, src) ==
  [j \in 1..Len(dst) |-> IF j > start /\ j <= start + Len(src) THEN src[j - start] ELSE dst[j]]

\* to_le_bytes of an integer of width bytes
ToLeBytes(value, width) == [j \in 1..width |-> (value \div (256 ^ (j - 1))) % 256]

RECURSIVE FromLeBytes(_)
\* from_le_bytes
FromLeBytes(bytes) ==
  IF Len(bytes) = 0 THEN 0
  ELSE bytes[1] + (IF \A j \in 2..Len(bytes) : bytes[j] = 0 THEN 0 ELSE 256 * FromLeBytes(Tail(bytes)))

\* PageType::from_u8: the page types are the values 1..4
PageType_from_u8(value) == IF value \in 1..4 THEN <<"ok", value>> ELSE <<"err">>

PageHeader_new(page_type, collection_id) ==
  [magic |-> MAGIC_NUMBER,
   page_type |-> page_type,
   reserved |-> <<0, 0, 0>>,
   record_count |-> 0,
   free_space_start |-> PAGE_HEADER_SIZE % U16Modulus,
   free_space_size |-> MAX_PAGE_DATA_SIZE % U16Modulus,
   checksum |-> 0,
   collection_id |-> collection_id]

\* PageHeader::serialize: 22 bytes of fields in an array of 24
PageHeader_serialize(header) ==
  LET b0 == [j \in 1..PAGE_HEADER_SIZE |-> 0]
      b1 == CopyIntoArray(b0, 0, ToLeBytes(header.magic, 4))
      b2 == [b1 EXCEPT ![5] = header.page_type]
      b3 == CopyIntoArray(b2, 5, header.reserved)
      b4 == CopyIntoArray(b3, 8, ToLeBytes(header.record_count, 2))
      b5 == CopyIntoArray(b4, 10, ToLeBytes(header.free_space_start, 2))
      b6 == CopyIntoArray(b5, 12, ToLeBytes(header.free_space_size, 2))
      b7 == CopyIntoArray(b6, 14, ToLeBytes(header.checksum, 4))
  IN  CopyIntoArray(b7, 18, ToLeBytes(header.collection_id, 4))

\* PageHeader::deserialize: <<"ok", header>> or <<"err">>
PageHeader_deserialize(bytes) ==
  IF Len(bytes) < PAGE_HEADER_SIZE THEN <<"err">>
  ELSE IF FromLeBytes(SubSeq(bytes, 1, 4)) # MAGIC_NUMBER THEN <<"err">>
  ELSE IF PageType_from_u8(bytes[5])[1] = "err" THEN <<"err">>
  ELSE <<"ok", [magic |-> FromLeBytes(SubSeq(bytes, 1, 4)),
                page_type |-> PageType_from_u8(bytes[5])[2],
                reserved |-> SubSeq(bytes, 6, 8),
                record_count |-> FromLeBytes(SubSeq(bytes, 9, 10)),
                free_space_start |-> FromLeBytes(SubSeq(bytes, 11, 12)),
                free_space_size |-> FromLeBytes(SubSeq(bytes, 13, 14)),
                checksum |-> FromLeBytes(SubSeq(bytes, 15, 18)),
                collection_id |-> FromLeBytes(SubSeq(bytes, 19, 22))]>>

SlotEntry_serialize(slot) == ToLeBytes(slot.offset, 2) \o ToLeBytes(slot.length, 2)

\* SlotEntry::deserialize: the length is read from bytes[1] and bytes[2]
SlotEntry_deserialize(bytes) ==
  IF Len(bytes) < 4 THEN <<"err">>
  ELSE <<"ok", [offset |-> FromLeBytes(<<bytes[1], bytes[2]>>),
                length |-> FromLeBytes(<<bytes[2], bytes[3]>>)]>>

Page_new(page_type, collection_id) ==
  [header |-> PageHeader_new(page_type, collection_id),
   slots |-> <<>>,
   data |-> ZeroBytes(MAX_PAGE_DATA_SIZE)]

\* insert_record with the slot offset relative to the data section
insert_record_data_relative(p, record_data) ==
  LET record_size == record_data.len
      slot_size == 4
      data_end == PAGE_SIZE - (Len(p.slots) * slot_size)
      new_record_offset == data_end - record_size
      data_start_in_page == new_record_offset - PAGE_HEADER_SIZE
      record_count == p.header.record_count + 1
      used == (record_size + slot_size) % U16Modulus
  IN  IF p.header.free_space_size < record_size + slot_size
      THEN [page |-> p, result |-> <<"err">>]
      ELSE IF \/ data_end < 0
              \/ new_record_offset < 0
              \/ data_start_in_page < 0
              \/ data_start_in_page + record_size > p.data.len
              \/ (record_count = U16Modulus /\ overflow_checks)
      THEN [page |-> p, result |-> <<"panic">>]
      ELSE [page |-> [header |-> [p.header EXCEPT
                                    !.record_count = record_count % U16Modulus,
                                    \* saturating_sub
                                    !.free_space_size = IF @ < used THEN 0 ELSE @ - used],
                      slots |-> Append(p.slots, [offset |-> data_start_in_page % U16Modulus,
                                                 length |-> record_size % U16Modulus]),
                      data |-> CopyFromSlice(p.data, data_start_in_page, record_data)],
            result |-> <<"ok", Len(p.slots) % U16Modulus>>]

\* insert_record that also refuses a record that fills the free space exactly
insert_record_strict(p, record_data) ==
  LET record_size == record_data.len
      slot_size == 4
      data_end == PAGE_SIZE - (Len(p.slots) * slot_size)
      new_record_offset == data_end - record_size
      data_start_in_page == new_record_offset - PAGE_HEADER_SIZE
      record_count == p.header.record_count + 1
      used == (record_size + slot_size) % U16Modulus
  IN  IF p.header.free_space_size <= record_size + slot_size
      THEN [page |-> p, result |-> <<"err">>]
      ELSE IF \/ data_end < 0
              \/ new_record_offset < 0
              \/ data_start_in_page < 0
              \/ data_start_in_page + record_size > p.data.len
              \/ (record_count = U16Modulus /\ overflow_checks)
      THEN [page |-> p, result |-> <<"panic">>]
      ELSE [page |-> [header |-> [p.header EXCEPT
                                    !.record_count = record_count % U16Modulus,
                                    \* saturating_sub
                                    !.free_space_size = IF @ < used THEN 0 ELSE @ - used],
                      slots |-> Append(p.slots, [offset |-> new_record_offset % U16Modulus,
                                                 length |-> record_size % U16Modulus]),
                      data |-> CopyFromSlice(p.data, data_start_in_page, record_data)],
            result |-> <<"ok", Len(p.slots) % U16Modulus>>]

\* Page::insert_record: [page, result]; result is <<"ok", slot_index>>,
\* <<"err">> or <<"panic">>.  A subtraction below zero panics in a build with
\* overflow checks and wraps to a number far above the length of the data
\* Vec otherwise, where taking the slice panics: <<"panic">> in both builds.
insert_record(p, record_data) ==
  LET record_size == record_data.len
      slot_size == 4
      data_end == PAGE_SIZE - (Len(p.slots) * slot_size)
      new_record_offset == data_end - record_size
      data_start_in_page == new_record_offset - PAGE_HEADER_SIZE
      record_count == p.header.record_count + 1
      used == (record_size + slot_size) % U16Modulus
  IN  IF p.header.free_space_size < record_size + slot_size
      THEN [page |-> p, result |-> <<"err">>]
      ELSE IF \/ data_end < 0
              \/ new_record_offset < 0
              \/ data_start_in_page < 0
              \/ data_start_in_page + record_size > p.data.len
              \/ (record_count = U16Modulus /\ overflow_checks)
      THEN [page |-> p, result |-> <<"panic">>]
      ELSE [page |-> [header |-> [p.header EXCEPT
                                    !.record_count = record_count % U16Modulus,
                                    \* saturating_sub
                                    !.free_space_size = IF @ < used THEN 0 ELSE @ - used],
                      slots |-> Append(p.slots, [offset |-> new_record_offset % U16Modulus,
                                                 length |-> record_size % U16Modulus]),
                      data |-> CopyFromSlice(p.data, data_start_in_page, record_data)],
            result |-> <<"ok", Len(p.slots) % U16Modulus>>]

\* Page::get_record: <<"ok", bytes>>, <<"err">> or <<"panic">>.  With
\* slot.offset < 24 the subtraction panics in a build with overflow checks;
\* otherwise it wraps, and data_end is either above the length of the data
\* Vec (an error) or has wrapped back to at most that length (the slice
\* panics).
get_record(p, slot_index) ==
  IF slot_index >= Len(p.slots) THEN <<"err">>
  ELSE
  LET slot == p.slots[slot_index + 1]
      data_start == slot.offset - PAGE_HEADER_SIZE
      data_end == data_start + slot.length
  IN  IF data_start < 0
      THEN IF overflow_checks \/ (data_end >= 0 /\ data_end <= p.data.len) THEN <<"panic">> ELSE <<"err">>
      ELSE IF data_end > p.data.len THEN <<"err">>
      ELSE <<"ok", Slice(p.data, data_start, data_end)>>

RECURSIVE SumOf(_, _)
\* the sum of the bytes of an array, up to index upto
SumOf(bytes, upto) == IF upto = 0 THEN 0 ELSE SumOf(bytes, upto - 1) + bytes[upto]

RECURSIVE SumSlots(_, _)
SumSlots(slots, upto) ==
  IF upto = 0 THEN 0
  ELSE SumSlots(slots, upto - 1) + SumOf(SlotEntry_serialize(slots[upto]), 4)

RECURSIVE SumBytes(_, _, _)
\* the sum of the bytes with indexes lo..hi-1 of nz, the non-zero bytes of a
\* Vec with their indexes (all of them in lo..hi-1); halving keeps the
\* recursion shallow
SumBytes(nz, lo, hi) ==
  IF DOMAIN nz = {} THEN 0
  ELSE IF hi - lo = 1 THEN nz[lo]
  ELSE SumBytes([k \in {k \in DOMAIN nz : k < (lo + hi) \div 2} |-> nz[k]], lo, (lo + hi) \div 2)
       + SumBytes([k \in {k \in DOMAIN nz : k >= (lo + hi) \div 2} |-> nz[k]], (lo + hi) \div 2, hi)

\* Page::update_checksum: the header with the sum of the slot bytes and of the
\* data bytes.  The sum is below 2^32 (at most 4072 bytes of data and 1018
\* slots), so wrapping_add never wraps.
update_checksum(p) ==
  [p EXCEPT !.header.checksum = SumSlots(p.slots, Len(p.slots)) + SumBytes(p.data.nz, 0, p.data.len)]

RECURSIVE WriteSlots(_, _, _)
\* the loop over the slots of Page::serialize, up to slot number upto
WriteSlots(page_bytes, slots, upto) ==
  IF upto = 0 THEN page_bytes
  ELSE CopyFromArray(WriteSlots(page_bytes, slots, upto - 1),
                     PAGE_HEADER_SIZE + 4 * (upto - 1), SlotEntry_serialize(slots[upto]))

\* Page::serialize: [page, bytes, panic]; the page has its checksum updated.
\* The header, then the slot directory from byte 24 upwards, then the data
\* section copied to bytes 24..24 + data.len().
Page_serialize(p) ==
  LET with_checksum(p1) ==
        IF \/ PAGE_HEADER_SIZE + 4 * Len(p1.slots) > PAGE_SIZE
           \/ PAGE_HEADER_SIZE + p1.data.len > PAGE_SIZE
        THEN [page |-> p1, bytes |-> ZeroBytes(0), panic |-> TRUE]
        ELSE [page |-> p1,
              bytes |-> CopyFromSlice(
                          WriteSlots(CopyFromArray(ZeroBytes(PAGE_SIZE), 0, PageHeader_serialize(p1.header)),
                                     p1.slots, Len(p1.slots)),
                          PAGE_HEADER_SIZE, p1.data),
              panic |-> FALSE]
  IN  with_checksum(update_checksum(p))

\* Page::deserialize: <<"ok", page>> or <<"err">>
Page_deserialize(bytes) ==
  IF bytes.len # PAGE_SIZE THEN <<"err">>
  ELSE
  LET read(header) ==
        IF header[1] = "err" THEN <<"err">>
        ELSE IF PAGE_HEADER_SIZE + 4 * header[2].record_count > bytes.len THEN <<"err">>
        ELSE <<"ok", [header |-> header[2],
                      slots |-> [i \in 1..header[2].record_count |->
                                   SlotEntry_deserialize(
                                     ArrayOf(bytes, PAGE_HEADER_SIZE + 4 * (i - 1), PAGE_HEADER_SIZE + 4 * i))[2]],
                      data |-> Slice(bytes, PAGE_HEADER_SIZE, PAGE_HEADER_SIZE + MAX_PAGE_DATA_SIZE)]>>
  IN  read(PageHeader_deserialize(ArrayOf(bytes, 0, PAGE_HEADER_SIZE)))

\* ------------------------------------------------------------ page: state
\* the B-tree variables while no tree has been created
NoBtree ==
  /\ t = 2
  /\ nodes = <<>>
  /\ free_list = <<>>
  /\ root_id = 0
  /\ panicked = "none"
  /\ stored = {}
  /\ ops = 0
  /\ interleaved = FALSE
  /\ deleted = FALSE
  /\ descent = "none"

\* the record of len bytes first, first + 1, ..
Record(len, first) == CopyFromArray(ZeroBytes(len), 0, [j \in 1..len |-> (first + j - 1) % 256])

RecordData == {Record(len, first) : len \in RecordLens, first \in FirstBytes}

\* Page::new(page_type, collection_id)
InitPage ==
  /\ NoBtree
  /\ overflow_checks \in BOOLEAN
  /\ page \in {Page_new(page_type, collection_id) : page_type \in PageTypes, collection_id \in CollectionIds}
  /\ returned = <<"none">>
  /\ page_ops = 0
  /\ image = NoImage
  /\ loaded = <<"none">>
  /\ records = <<>>
  /\ chunk_header = <<>>
  /\ chunk_bytes = <<>>
  /\ chunk_read = <<"none">>
  /\ NoRest

\* page.insert_record(record_data); a panic ends the program
InsertRecord(record_data) ==
  /\ page_ops < MaxPageOps
  /\ returned # <<"panic">>
  /\ LET r == insert_record(page, record_data)
     IN  /\ page' = r.page
         /\ returned' = r.result
         /\ records' = IF r.result[1] = "ok" THEN (r.result[2] :> record_data) @@ records ELSE records
  /\ page_ops' = page_ops + 1
  /\ image' = NoImage
  /\ loaded' = <<"none">>
  /\ UNCHANGED <<btree_vars, chunk_vars, rest_vars>>

\* image = page.serialize()
SerializePage ==
  /\ returned # <<"panic">>
  /\ image = NoImage
  /\ LET r == Page_serialize(page)
     IN  /\ page' = r.page
         /\ image' = r.bytes
         /\ returned' = IF r.panic THEN <<"panic">> ELSE returned
  /\ UNCHANGED <<page_ops, loaded, records>>
  /\ UNCHANGED <<btree_vars, chunk_vars, rest_vars>>

\* Page::deserialize(&image)
DeserializePage ==
  /\ image # NoImage
  /\ loaded = <<"none">>
  /\ loaded' = Page_deserialize(image)
  /\ UNCHANGED <<page, returned, page_ops, image, records>>
  /\ UNCHANGED <<btree_vars, chunk_vars, rest_vars>>

\* any sequence of insert_record calls on a new page
NextPage == \E record_data \in RecordData : InsertRecord(record_data)

SpecPage == InitPage /\ [][NextPage]_vars

\* insert_record calls, then the page is written and read back
NextPageIO ==
  \/ \E record_data \in RecordData : image = NoImage /\ InsertRecord(record_data)
  \/ SerializePage
  \/ DeserializePage

SpecPageIO == InitPage /\ [][NextPageIO]_vars

\* ------------------------------------------------ page: what a state holds
\* the smallest slot offset, PAGE_SIZE when the page has no record
HeapTop ==
  IF Len(page.slots) = 0 THEN PAGE_SIZE
  ELSE CHOOSE o \in {page.slots[i].offset : i \in 1..Len(page.slots)} :
         \A i \in 1..Len(page.slots) : o <= page.slots[i].offset

DirectoryTop == PAGE_HEADER_SIZE + 4 * page.header.record_count

\* ---------------------------------------------------------- chunk header
\* ChunkHeader::MAGIC, the bytes of "KNCH"
ChunkHeader_MAGIC == <<75, 78, 67, 72>>

ChunkHeader_SIZE == 96

FIELD_MAGIC_OFFSET == 0
FIELD_ID_OFFSET == 4
FIELD_LENGTH_OFFSET == 8
FIELD_VERSION_OFFSET == 12
FIELD_TIME_OFFSET == 20
FIELD_MAX_LENGTH_OFFSET == 28
FIELD_PAGE_COUNT_OFFSET == 32
FIELD_PIN_COUNT_OFFSET == 36
FIELD_TABLE_OF_CONTENT_POSITION_OFFSET == 40
FIELD_LAYOUT_ROOT_POSITION_OFFSET == 44
FIELD_MAP_ID_OFFSET == 52
FIELD_NEXT_OFFSET == 56
FIELD_END_OFFSET == 64

\* u64::to_le_bytes: the low word's four bytes, then the high word's
U64_to_le_bytes(value) == ToLeBytes(value.lo, 4) \o ToLeBytes(value.hi, 4)

\* u64::from_le_bytes
U64_from_le_bytes(bytes) ==
  [lo |-> FromLeBytes(SubSeq(bytes, 1, 4)), hi |-> FromLeBytes(SubSeq(bytes, 5, 8))]

\* read_u32(bytes, offset)
read_u32(bytes, offset) == FromLeBytes(SubSeq(bytes, offset + 1, offset + 4))

\* read_u64(bytes, offset)
read_u64(bytes, offset) == U64_from_le_bytes(SubSeq(bytes, offset + 1, offset + 8))

\* serialize_header with the fields packed by width, the layout of
\* chunk_impl_header_footer.rs
serialize_header_packed(h) ==
  LET next(bytes) == CopyIntoArray(bytes, 56, U64_to_le_bytes(h.next))
      layout_root_position(bytes) == next(CopyIntoArray(bytes, 48, U64_to_le_bytes(h.layout_root_position)))
      time(bytes) == layout_root_position(CopyIntoArray(bytes, 40, U64_to_le_bytes(h.time)))
      version(bytes) == time(CopyIntoArray(bytes, 32, U64_to_le_bytes(h.version)))
      map_id(bytes) == version(CopyIntoArray(bytes, 28, ToLeBytes(h.map_id, 4)))
      pin_count(bytes) == map_id(CopyIntoArray(bytes, 24, ToLeBytes(h.pin_count, 4)))
      max_length(bytes) == pin_count(CopyIntoArray(bytes, 20, ToLeBytes(h.max_length, 4)))
      table_of_content_position(bytes) ==
        max_length(CopyIntoArray(bytes, 16, ToLeBytes(h.table_of_content_position, 4)))
      page_count(bytes) == table_of_content_position(CopyIntoArray(bytes, 12, ToLeBytes(h.page_count, 4)))
      length(bytes) == page_count(CopyIntoArray(bytes, 8, ToLeBytes(h.length, 4)))
      id(bytes) == length(CopyIntoArray(bytes, 4, ToLeBytes(h.id, 4)))
      magic(bytes) == id(CopyIntoArray(bytes, 0, ChunkHeader_MAGIC))
  IN  magic([j \in 1..ChunkHeader_SIZE |-> 0])

\* h.serialize_header()
serialize_header(h) ==
  LET next(bytes) == CopyIntoArray(bytes, FIELD_NEXT_OFFSET, U64_to_le_bytes(h.next))
      map_id(bytes) == next(CopyIntoArray(bytes, FIELD_MAP_ID_OFFSET, ToLeBytes(h.map_id, 4)))
      layout_root_position(bytes) ==
        map_id(CopyIntoArray(bytes, FIELD_LAYOUT_ROOT_POSITION_OFFSET, U64_to_le_bytes(h.layout_root_position)))
      table_of_content_position(bytes) ==
        layout_root_position(CopyIntoArray(bytes, FIELD_TABLE_OF_CONTENT_POSITION_OFFSET,
                                           ToLeBytes(h.table_of_content_position, 4)))
      pin_count(bytes) ==
        table_of_content_position(CopyIntoArray(bytes, FIELD_PIN_COUNT_OFFSET, ToLeBytes(h.pin_count, 4)))
      page_count(bytes) == pin_count(CopyIntoArray(bytes, FIELD_PAGE_COUNT_OFFSET, ToLeBytes(h.page_count, 4)))
      max_length(bytes) == page_count(CopyIntoArray(bytes, FIELD_MAX_LENGTH_OFFSET, ToLeBytes(h.max_length, 4)))
      time(bytes) == max_length(CopyIntoArray(bytes, FIELD_TIME_OFFSET, U64_to_le_bytes(h.time)))
      version(bytes) == time(CopyIntoArray(bytes, FIELD_VERSION_OFFSET, U64_to_le_bytes(h.version)))
      length(bytes) == version(CopyIntoArray(bytes, FIELD_LENGTH_OFFSET, ToLeBytes(h.length, 4)))
      id(bytes) == length(CopyIntoArray(bytes, FIELD_ID_OFFSET, ToLeBytes(h.id, 4)))
      magic(bytes) == id(CopyIntoArray(bytes, FIELD_MAGIC_OFFSET, ChunkHeader_MAGIC))
  IN  magic([j \in 1..ChunkHeader_SIZE |-> 0])

\* deserialize_header reading each u64 field with read_u32
deserialize_header_narrow(bytes) ==
  IF Len(bytes) # ChunkHeader_SIZE THEN <<"err">>
  ELSE <<"ok", [magic |-> SubSeq(bytes, FIELD_MAGIC_OFFSET + 1, FIELD_MAGIC_OFFSET + 4),
                id |-> read_u32(bytes, FIELD_ID_OFFSET),
                length |-> read_u32(bytes, FIELD_LENGTH_OFFSET),
                version |-> [lo |-> read_u32(bytes, FIELD_VERSION_OFFSET), hi |-> 0],
                time |-> [lo |-> read_u32(bytes, FIELD_TIME_OFFSET), hi |-> 0],
                max_length |-> read_u32(bytes, FIELD_MAX_LENGTH_OFFSET),
                page_count |-> read_u32(bytes, FIELD_PAGE_COUNT_OFFSET),
                pin_count |-> read_u32(bytes, FIELD_PIN_COUNT_OFFSET),
                table_of_content_position |-> read_u32(bytes, FIELD_TABLE_OF_CONTENT_POSITION_OFFSET),
                layout_root_position |-> [lo |-> read_u32(bytes, FIELD_LAYOUT_ROOT_POSITION_OFFSET), hi |-> 0],
                map_id |-> read_u32(bytes, FIELD_MAP_ID_OFFSET),
                next |-> [lo |-> read_u32(bytes, FIELD_NEXT_OFFSET), hi |-> 0]]>>

\* ChunkHeader::deserialize_header(bytes): <<"ok", header>> or <<"err">>
deserialize_header(bytes) ==
  IF Len(bytes) # ChunkHeader_SIZE THEN <<"err">>
  ELSE <<"ok", [magic |-> SubSeq(bytes, FIELD_MAGIC_OFFSET + 1, FIELD_MAGIC_OFFSET + 4),
                id |-> read_u32(bytes, FIELD_ID_OFFSET),
                length |-> read_u32(bytes, FIELD_LENGTH_OFFSET),
                version |-> read_u64(bytes, FIELD_VERSION_OFFSET),
                time |-> read_u64(bytes, FIELD_TIME_OFFSET),
                max_length |-> read_u32(bytes, FIELD_MAX_LENGTH_OFFSET),
                page_count |-> read_u32(bytes, FIELD_PAGE_COUNT_OFFSET),
                pin_count |-> read_u32(bytes, FIELD_PIN_COUNT_OFFSET),
                table_of_content_position |-> read_u32(bytes, FIELD_TABLE_OF_CONTENT_POSITION_OFFSET),
                layout_root_position |-> read_u64(bytes, FIELD_LAYOUT_ROOT_POSITION_OFFSET),
                map_id |-> read_u32(bytes, FIELD_MAP_ID_OFFSET),
                next |-> read_u64(bytes, FIELD_NEXT_OFFSET)]>>

\* --------------------------------------------------- chunk header: state
\* the page variables while no page has been created
NoPageState ==
  /\ page = NoPage
  /\ returned = <<"none">>
  /\ page_ops = 0
  /\ image = NoImage
  /\ loaded = <<"none">>
  /\ records = <<>>

\* magic fields: "KNCH" and "KENC"
Magics == {ChunkHeader_MAGIC, <<75, 69, 78, 67>>}

\* u32 fields: the value of test_header_roundtrip and one with four non-zero bytes
U32s(small) == {small, 2018915346 - small}

\* u64 fields: the value of test_header_roundtrip and one with eight non-zero bytes
U64s(small) == {[lo |-> small, hi |-> 0], [lo |-> 2018915346 - small, hi |-> 16909060 + small]}

ChunkHeaders ==
  [magic : Magics, id : U32s(123), length : U32s(456), version : U64s(789), time : U64s(1234567890),
   max_length : U32s(999), page_count : U32s(10), pin_count : U32s(5),
   table_of_content_position : U32s(100), layout_root_position : U64s(200), map_id : U32s(42),
   next : U64s(300)]

\* a ChunkHeader value, any of its pub fields set
InitChunk ==
  /\ NoBtree
  /\ overflow_checks = FALSE
  /\ NoPageState
  /\ chunk_header \in ChunkHeaders
  /\ chunk_bytes = <<>>
  /\ chunk_read = <<"none">>
  /\ NoRest

\* chunk_bytes = chunk_header.serialize_header()
SerializeHeader ==
  /\ chunk_bytes = <<>>
  /\ chunk_bytes' = serialize_header(chunk_header)
  /\ UNCHANGED <<chunk_header, chunk_read>>
  /\ UNCHANGED <<btree_vars, page_vars, rest_vars>>

\* chunk_read = ChunkHeader::deserialize_header(&chunk_bytes)
DeserializeHeader ==
  /\ chunk_bytes # <<>>
  /\ chunk_read = <<"none">>
  /\ chunk_read' = deserialize_header(chunk_bytes)
  /\ UNCHANGED <<chunk_header, chunk_bytes>>
  /\ UNCHANGED <<btree_vars, page_vars, rest_vars>>

NextChunk ==
  \/ SerializeHeader
  \/ DeserializeHeader

SpecChunk == InitChunk /\ [][NextChunk]_vars

\* ------------------------------------- chunk_impl_header_footer.rs: header
\* ChunkHeader::serialize_header of chunk_impl_header_footer.rs: the magic
\* and the seven u32 fields at the offsets 0, 4, .. 28, then the four u64
\* fields at 32, 40, 48 and 56 (offset += 4 or 8 after each field)
HeaderFooter_serialize_header(h) ==
  LET next(bytes) == CopyIntoArray(bytes, 56, U64_to_le_bytes(h.next))
      layout_root_position(bytes) == next(CopyIntoArray(bytes, 48, U64_to_le_bytes(h.layout_root_position)))
      time(bytes) == layout_root_position(CopyIntoArray(bytes, 40, U64_to_le_bytes(h.time)))
      version(bytes) == time(CopyIntoArray(bytes, 32, U64_to_le_bytes(h.version)))
      map_id(bytes) == version(CopyIntoArray(bytes, 28, ToLeBytes(h.map_id, 4)))
      pin_count(bytes) == map_id(CopyIntoArray(bytes, 24, ToLeBytes(h.pin_count, 4)))
      max_length(bytes) == pin_count(CopyIntoArray(bytes, 20, ToLeBytes(h.max_length, 4)))
      table_of_content_position(bytes) ==
        max_length(CopyIntoArray(bytes, 16, ToLeBytes(h.table_of_content_position, 4)))
      page_count(bytes) == table_of_content_position(CopyIntoArray(bytes, 12, ToLeBytes(h.page_count, 4)))
      length(bytes) == page_count(CopyIntoArray(bytes, 8, ToLeBytes(h.length, 4)))
      id(bytes) == length(CopyIntoArray(bytes, 4, ToLeBytes(h.id, 4)))
      magic(bytes) == id(CopyIntoArray(bytes, 0, ChunkHeader_MAGIC))
  IN  magic([j \in 1..ChunkHeader_SIZE |-> 0])

\* ChunkHeader::deserialize_header of chunk_impl_header_footer.rs:
\* <<"ok", header>> or <<"err">>; the fields are read in the order in which
\* that serialize_header writes them
HeaderFooter_deserialize_header(bytes) ==
  IF Len(bytes) # ChunkHeader_SIZE THEN <<"err">>
  ELSE <<"ok", [magic |-> SubSeq(bytes, 1, 4),
                id |-> read_u32(bytes, 4),
                length |-> read_u32(bytes, 8),
                page_count |-> read_u32(bytes, 12),
                table_of_content_position |-> read_u32(bytes, 16),
                max_length |-> read_u32(bytes, 20),
                pin_count |-> read_u32(bytes, 24),
                map_id |-> read_u32(bytes, 28),
                version |-> read_u64(bytes, 32),
                time |-> read_u64(bytes, 40),
                layout_root_position |-> read_u64(bytes, 48),
                next |-> read_u64(bytes, 56)]>>

\* ------------------------------------------- the two header codecs: state
codec_frame == <<btree_vars, page_vars, chunk_vars, fletcher_vars, footer_vars, file_vars, value_vars,
                 collection_vars>>

\* hf_bytes = chunk_header.serialize_header(), the one of
\* chunk_impl_header_footer.rs
HeaderFooterSerialize ==
  /\ chunk_header # <<>>
  /\ hf_bytes = <<>>
  /\ hf_bytes' = HeaderFooter_serialize_header(chunk_header)
  /\ UNCHANGED <<hf_read, margin_read>>
  /\ UNCHANGED codec_frame

\* the bytes written by chunk_impl_margin.rs read by
\* chunk_impl_header_footer.rs
HeaderFooterReadsMargin ==
  /\ chunk_bytes # <<>>
  /\ hf_read = <<"none">>
  /\ hf_read' = HeaderFooter_deserialize_header(chunk_bytes)
  /\ UNCHANGED <<hf_bytes, margin_read>>
  /\ UNCHANGED codec_frame

\* the bytes written by chunk_impl_header_footer.rs read by
\* chunk_impl_margin.rs
MarginReadsHeaderFooter ==
  /\ hf_bytes # <<>>
  /\ margin_read = <<"none">>
  /\ margin_read' = deserialize_header(hf_bytes)
  /\ UNCHANGED <<hf_bytes, hf_read>>
  /\ UNCHANGED codec_frame

NextCodecs ==
  \/ SerializeHeader
  \/ HeaderFooterSerialize
  \/ HeaderFooterReadsMargin
  \/ MarginReadsHeaderFooter

\* a header given to both codecs
SpecCodecs == InitChunk /\ [][NextCodecs]_vars

\* ------------------------------------------------------------ fletcher32
\* crates/storage/src/data_util.rs.  The sums of get_fletcher32 are u32
\* values above 2^31, held as the record [hi, lo] of their 16-bit halves.
U16 == 65536

\* a value below 2^31 as a u32
Halves(v) == [hi |-> v \div U16, lo |-> v % U16]

\* a + b on u32: the wrapped sum and whether it overflowed
AddU32(a, b) ==
  LET sum(lo, hi) == [hi |-> hi % U16, lo |-> lo % U16, overflow |-> hi >= U16]
  IN  sum(a.lo + b.lo, a.hi + b.hi + ((a.lo + b.lo) \div U16))

\* (s & 0xffff) + (s >> 16)
Fold(s) == Halves(s.lo + s.hi)

RECURSIVE BitOr(_, _)
\* a | b
BitOr(a, b) ==
  IF a = 0 THEN b
  ELSE IF b = 0 THEN a
  ELSE 2 * BitOr(a \div 2, b \div 2) + (IF a % 2 = 1 \/ b % 2 = 1 THEN 1 ELSE 0)

\* sum1 += x; sum2 += sum1; an overflow panics when overflow checks are on
\* and wraps otherwise
AddWord(st, x) ==
  LET second(s1, s2) == [i |-> st.i, sum1 |-> [hi |-> s1.hi, lo |-> s1.lo],
                         sum2 |-> [hi |-> s2.hi, lo |-> s2.lo],
                         panic |-> overflow_checks /\ (s1.overflow \/ s2.overflow)]
      first(s1) == second(s1, AddU32(st.sum2, s1))
  IN  first(AddU32(st.sum1, Halves(x)))

RECURSIVE FletcherWords(_, _, _)
\* while i < end { x = (bytes[i] << 8) | bytes[i + 1]; i += 2; .. }: one
\* word when one is left, else the first half of the words and then, from
\* the state they leave, the others
FletcherWords(bytes, st, end) ==
  IF st.panic \/ st.i >= end THEN st
  ELSE IF end - st.i <= 2
       THEN AddWord([st EXCEPT !.i = @ + 2], bytes[st.i + 1] * 256 + bytes[st.i + 2])
  ELSE LET others(s) == FletcherWords(bytes, s, end)
       IN  others(FletcherWords(bytes, st, st.i + 2 * ((end - st.i) \div 4)))

RECURSIVE FletcherBlocks(_, _, _)
\* while i < len { end = min(i + 720, len); ..; fold both sums }
FletcherBlocks(bytes, st, len) ==
  IF st.panic \/ st.i >= len THEN st
  ELSE LET folded(s) == IF s.panic THEN s
                        ELSE FletcherBlocks(bytes, [s EXCEPT !.sum1 = Fold(@), !.sum2 = Fold(@)], len)
       IN  folded(FletcherWords(bytes, st, Min(st.i + 720, len)))

\* get_fletcher32 with both sums starting at 0
fletcher32_sums_from_zero(bytes, offset, length) ==
  LET len == offset + (length - (length % 2))
      final(s) == IF s.panic THEN [sum1 |-> 0, sum2 |-> 0, panic |-> TRUE]
                  ELSE [sum1 |-> s.sum1.lo + s.sum1.hi, sum2 |-> s.sum2.lo + s.sum2.hi, panic |-> FALSE]
      odd(s) == IF s.panic \/ length % 2 = 0 THEN final(s)
                ELSE IF s.i >= Len(bytes) THEN final([s EXCEPT !.panic = TRUE])
                ELSE final(AddWord(s, bytes[s.i + 1] * 256))
  IN  IF len > Len(bytes) THEN [sum1 |-> 0, sum2 |-> 0, panic |-> TRUE]
      ELSE odd(FletcherBlocks(bytes, [i |-> offset, sum1 |-> Halves(0), sum2 |-> Halves(0),
                                      panic |-> FALSE], len))

\* get_fletcher32 up to its last line: the two sums after the final fold,
\* [sum1, sum2, panic]
fletcher32_sums(bytes, offset, length) ==
  LET len == offset + (length - (length % 2))
      final(s) == IF s.panic THEN [sum1 |-> 0, sum2 |-> 0, panic |-> TRUE]
                  ELSE [sum1 |-> s.sum1.lo + s.sum1.hi, sum2 |-> s.sum2.lo + s.sum2.hi, panic |-> FALSE]
      odd(s) == IF s.panic \/ length % 2 = 0 THEN final(s)
                ELSE IF s.i >= Len(bytes) THEN final([s EXCEPT !.panic = TRUE])
                ELSE final(AddWord(s, bytes[s.i + 1] * 256))
  IN  IF len > Len(bytes) THEN [sum1 |-> 0, sum2 |-> 0, panic |-> TRUE]
      ELSE odd(FletcherBlocks(bytes, [i |-> offset, sum1 |-> Halves(65535), sum2 |-> Halves(65535),
                                      panic |-> FALSE], len))

\* get_fletcher32 summing from the start of bytes, whatever the offset
get_fletcher32_from_start(bytes, offset, length) ==
  LET result(s) == IF s.panic THEN <<"panic">>
                   ELSE <<"ok", [hi |-> BitOr(s.sum2 % U16, s.sum1 \div U16), lo |-> s.sum1 % U16]>>
  IN  result(fletcher32_sums(bytes, 0, length))

\* get_fletcher32(bytes, offset, length): <<"ok", (sum2 << 16) | sum1>> as
\* [hi, lo], or <<"panic">>
get_fletcher32(bytes, offset, length) ==
  LET result(s) == IF s.panic THEN <<"panic">>
                   ELSE <<"ok", [hi |-> BitOr(s.sum2 % U16, s.sum1 \div U16), lo |-> s.sum1 % U16]>>
  IN  result(fletcher32_sums(bytes, offset, length))

\* ----------------------------------------------------- fletcher32: state
\* the chunk header variables while no header has been given
NoChunkState ==
  /\ chunk_header = <<>>
  /\ chunk_bytes = <<>>
  /\ chunk_read = <<"none">>

\* every byte sequence of the given length over FletcherBytes
BytesOfLen(len) == [1..len -> FletcherBytes]

\* pattern repeated up to len bytes
Fill(pattern, len) == [j \in 1..len |-> pattern[((j - 1) % Len(pattern)) + 1]]

\* calls on short slices: the first offsets, any length up to one byte
\* beyond the end of the slice
ShortCalls ==
  UNION {{[bytes |-> b, offset |-> offset, length |-> length] :
            b \in BytesOfLen(len), length \in 0..(len - offset + 1)} :
          len \in 0..MaxFletcherLen, offset \in 0..MaxFletcherOffset}

\* calls on slices of more than one 720-byte block
LongCalls ==
  {[bytes |-> Fill(pattern, len), offset |-> offset, length |-> len - offset - short] :
     pattern \in {<<255>>, <<128, 0, 255>>}, len \in {723, 1445}, offset \in 0..2, short \in 0..1}

\* the variables get_fletcher32 leaves alone
fletcher_frame == <<btree_vars, page_vars, chunk_vars, footer_vars, file_vars, value_vars, collection_vars, codec_vars>>

\* no other program has started
FletcherAlone ==
  /\ NoBtree
  /\ NoPageState
  /\ NoChunkState
  /\ NoFooter
  /\ NoFileStore
  /\ NoValue
  /\ NoCollection
  /\ NoCodecs

InitFletcher ==
  /\ FletcherAlone
  /\ overflow_checks \in BOOLEAN
  /\ fl_call \in ShortCalls \cup LongCalls
  /\ fl_sums = [whole |-> <<"none">>, slice |-> <<"none">>, padded |-> <<"none">>]

\* the range of the call lies inside the bytes
InRange == fl_call.offset + fl_call.length <= Len(fl_call.bytes)

\* bytes[offset .. offset + length]
RangeBytes == SubSeq(fl_call.bytes, fl_call.offset + 1, fl_call.offset + fl_call.length)

\* get_fletcher32(bytes, offset, length)
Checksum ==
  /\ fl_sums.whole = <<"none">>
  /\ fl_sums' = [fl_sums EXCEPT !.whole = get_fletcher32(fl_call.bytes, fl_call.offset, fl_call.length)]
  /\ UNCHANGED fl_call
  /\ UNCHANGED fletcher_frame

\* get_fletcher32(&bytes[offset .. offset + length], 0, length)
ChecksumOfRange ==
  /\ InRange
  /\ fl_sums.slice = <<"none">>
  /\ fl_sums' = [fl_sums EXCEPT !.slice = get_fletcher32(RangeBytes, 0, fl_call.length)]
  /\ UNCHANGED fl_call
  /\ UNCHANGED fletcher_frame

\* get_fletcher32 of the range followed by one zero byte, for an odd length
ChecksumPadded ==
  /\ InRange
  /\ fl_call.length % 2 = 1
  /\ fl_sums.padded = <<"none">>
  /\ fl_sums' = [fl_sums EXCEPT !.padded = get_fletcher32(Append(RangeBytes, 0), 0, fl_call.length + 1)]
  /\ UNCHANGED fl_call
  /\ UNCHANGED fletcher_frame

NextFletcher ==
  \/ Checksum
  \/ ChecksumOfRange
  \/ ChecksumPadded

SpecFletcher == InitFletcher /\ [][NextFletcher]_vars

\* ---------------------------------------------------------- chunk footer
\* crates/storage/src/chunk.rs and chunk_impl_margin.rs.  The checksum
\* field takes every 32-bit value and is the record [hi, lo] of its 16-bit
\* halves, as get_fletcher32 returns it.
ChunkFooter_SIZE == 96

FOOTER_FIELD_ID_OFFSET == 0
FOOTER_FIELD_LENGTH_OFFSET == 4
FOOTER_FIELD_VERSION_OFFSET == 8
FOOTER_FIELD_CHECKSUM_OFFSET == 16
FOOTER_FIELD_END_OFFSET == 20

\* u32::to_le_bytes of a checksum
Checksum_to_le_bytes(value) == ToLeBytes(value.lo, 2) \o ToLeBytes(value.hi, 2)

\* u32::from_le_bytes of a checksum
Checksum_from_le_bytes(bytes) ==
  [hi |-> FromLeBytes(SubSeq(bytes, 3, 4)), lo |-> FromLeBytes(SubSeq(bytes, 1, 2))]

\* serialize_footer taking the checksum before the version is written
serialize_footer_early_checksum(f) ==
  LET checksum(bytes) ==
        CopyIntoArray(CopyIntoArray(bytes, FOOTER_FIELD_VERSION_OFFSET, U64_to_le_bytes(f.version)),
                      FOOTER_FIELD_CHECKSUM_OFFSET,
                      Checksum_to_le_bytes(get_fletcher32(bytes, 0, FOOTER_FIELD_CHECKSUM_OFFSET)[2]))
      length(bytes) == checksum(CopyIntoArray(bytes, FOOTER_FIELD_LENGTH_OFFSET, ToLeBytes(f.length, 4)))
      id(bytes) == length(CopyIntoArray(bytes, FOOTER_FIELD_ID_OFFSET, ToLeBytes(f.id, 4)))
  IN  id([j \in 1..ChunkFooter_SIZE |-> 0])

\* f.serialize_footer()
serialize_footer(f) ==
  LET checksum(bytes) ==
        CopyIntoArray(bytes, FOOTER_FIELD_CHECKSUM_OFFSET,
                      Checksum_to_le_bytes(get_fletcher32(bytes, 0, FOOTER_FIELD_CHECKSUM_OFFSET)[2]))
      version(bytes) == checksum(CopyIntoArray(bytes, FOOTER_FIELD_VERSION_OFFSET, U64_to_le_bytes(f.version)))
      length(bytes) == version(CopyIntoArray(bytes, FOOTER_FIELD_LENGTH_OFFSET, ToLeBytes(f.length, 4)))
      id(bytes) == length(CopyIntoArray(bytes, FOOTER_FIELD_ID_OFFSET, ToLeBytes(f.id, 4)))
  IN  id([j \in 1..ChunkFooter_SIZE |-> 0])

\* ChunkFooter::deserialize_footer(bytes): <<"ok", footer>> or <<"err">>
deserialize_footer(bytes) ==
  IF Len(bytes) # ChunkFooter_SIZE THEN <<"err">>
  ELSE <<"ok", [id |-> read_u32(bytes, FOOTER_FIELD_ID_OFFSET),
                length |-> read_u32(bytes, FOOTER_FIELD_LENGTH_OFFSET),
                version |-> read_u64(bytes, FOOTER_FIELD_VERSION_OFFSET),
                checksum |-> Checksum_from_le_bytes(SubSeq(bytes, FOOTER_FIELD_CHECKSUM_OFFSET + 1,
                                                           FOOTER_FIELD_CHECKSUM_OFFSET + 4))]>>

\* verify_footer comparing the low halves of the checksums only
verify_footer_low_half(bytes) ==
  IF Len(bytes) # ChunkFooter_SIZE THEN FALSE
  ELSE Checksum_from_le_bytes(SubSeq(bytes, FOOTER_FIELD_CHECKSUM_OFFSET + 1,
                                     FOOTER_FIELD_CHECKSUM_OFFSET + 4)).lo
         = get_fletcher32(bytes, 0, FOOTER_FIELD_CHECKSUM_OFFSET)[2].lo

\* ChunkFooter::verify_footer(bytes)
verify_footer(bytes) ==
  IF Len(bytes) # ChunkFooter_SIZE THEN FALSE
  ELSE LET stored_checksum ==
             Checksum_from_le_bytes(SubSeq(bytes, FOOTER_FIELD_CHECKSUM_OFFSET + 1,
                                           FOOTER_FIELD_CHECKSUM_OFFSET + 4))
           calculated_checksum == get_fletcher32(bytes, 0, FOOTER_FIELD_CHECKSUM_OFFSET)
       IN  calculated_checksum = <<"ok", stored_checksum>>

\* --------------------------------------------------- chunk footer: state
\* checksum fields: the 0 of test_footer_roundtrip and a value with four
\* non-zero bytes
ChunkFooters ==
  [id : U32s(123), length : U32s(456), version : U64s(789),
   checksum : {[hi |-> 0, lo |-> 0], [hi |-> 57005, lo |-> 48879]}]

\* the bit positions of bytes [0, 20)
FooterBits == 0..(8 * FOOTER_FIELD_END_OFFSET - 1)

\* bytes with bit (pos % 8) of byte (pos / 8) inverted
FlipBit(bytes, pos) ==
  LET weight == 2 ^ (pos % 8)
  IN  [bytes EXCEPT ![(pos \div 8) + 1] = IF (@ \div weight) % 2 = 1 THEN @ - weight ELSE @ + weight]

\* the variables the footer codec leaves alone
footer_frame == <<btree_vars, page_vars, chunk_vars, fletcher_vars, file_vars, value_vars, collection_vars, codec_vars>>

\* no other program has started
FooterAlone ==
  /\ NoBtree
  /\ NoPageState
  /\ NoChunkState
  /\ NoFletcher
  /\ NoFileStore
  /\ NoValue
  /\ NoCollection
  /\ NoCodecs

InitFooter ==
  /\ FooterAlone
  /\ overflow_checks \in BOOLEAN
  /\ footer \in ChunkFooters
  /\ footer_bytes = <<>>
  /\ footer_damage = [kind |-> "none", bit |-> 0]
  /\ footer_read = <<"none">>
  /\ footer_verified = "none"

\* footer_bytes = footer.serialize_footer()
SerializeFooter ==
  /\ footer_bytes = <<>>
  /\ footer_bytes' = serialize_footer(footer)
  /\ UNCHANGED <<footer, footer_damage, footer_read, footer_verified>>
  /\ UNCHANGED footer_frame

\* the serialized bytes not looked at yet
Untouched ==
  /\ footer_bytes # <<>>
  /\ footer_damage.kind = "none"
  /\ footer_read = <<"none">>
  /\ footer_verified = "none"

\* one bit of the stored footer changes
FlipFooterBit(pos) ==
  /\ Untouched
  /\ footer_bytes' = FlipBit(footer_bytes, pos)
  /\ footer_damage' = [kind |-> "bit", bit |-> pos]
  /\ UNCHANGED <<footer, footer_read, footer_verified>>
  /\ UNCHANGED footer_frame

\* the caller hands over one byte less or one byte more
ResizeFooter ==
  /\ Untouched
  /\ \/ footer_bytes' = SubSeq(footer_bytes, 1, Len(footer_bytes) - 1)
     \/ footer_bytes' = Append(footer_bytes, 0)
  /\ footer_damage' = [kind |-> "length", bit |-> 0]
  /\ UNCHANGED <<footer, footer_read, footer_verified>>
  /\ UNCHANGED footer_frame

\* footer_read = ChunkFooter::deserialize_footer(&footer_bytes); bytes with
\* a flipped bit are only verified (their id or length may have bit 31 set,
\* which an integer of the model cannot hold)
DeserializeFooter ==
  /\ footer_bytes # <<>>
  /\ footer_damage.kind # "bit"
  /\ footer_read = <<"none">>
  /\ footer_read' = deserialize_footer(footer_bytes)
  /\ UNCHANGED <<footer, footer_bytes, footer_damage, footer_verified>>
  /\ UNCHANGED footer_frame

\* footer_verified = ChunkFooter::verify_footer(&footer_bytes)
VerifyFooter ==
  /\ footer_bytes # <<>>
  /\ footer_verified = "none"
  /\ footer_verified' = IF verify_footer(footer_bytes) THEN "true" ELSE "false"
  /\ UNCHANGED <<footer, footer_bytes, footer_damage, footer_read>>
  /\ UNCHANGED footer_frame

NextFooter ==
  \/ SerializeFooter
  \/ \E pos \in FooterBits : FlipFooterBit(pos)
  \/ ResizeFooter
  \/ DeserializeFooter
  \/ VerifyFooter

SpecFooter == InitFooter /\ [][NextFooter]_vars

\* -------------------------------------------------------------- file store
\* crates/storage/src/file_store.rs and file_store_i12n.rs.  fs_file is the
\* file of the file system, [exists, bytes]; fs_store the FileStore, <<>>
\* until an open has returned one; fs_call and fs_result the last call and
\* what it returned; fs_log the calls made: their number, the size open
\* recorded and the [offset, length] of every write_fully that returned Ok.
\* Offsets and lengths stay far below 2^63: no u64 sum overflows.
NoCall == [op |-> "none", read_only |-> FALSE, offset |-> 0, length |-> 0, buffer |-> <<>>]

\* File::options().read(true).write(!read_only).create(true).open(..): the
\* standard library rejects create without write access (InvalidInput)
\* before it touches the file system
File_open(file, read_only) ==
  IF read_only THEN [file |-> file, result |-> <<"err", "InvalidInput">>]
  ELSE [file |-> [exists |-> TRUE, bytes |-> file.bytes], result |-> <<"ok">>]

\* FileStore::open(file_name, read_only): [file, store, result]
FileStore_open(file, read_only) ==
  LET opened(f) ==
        IF f.result[1] # "ok" THEN [file |-> f.file, store |-> <<>>, result |-> <<"err", "IoError">>]
        ELSE [file |-> f.file,
              store |-> [size |-> Len(f.file.bytes), read_only |-> read_only, read_count |-> 0,
                         read_bytes |-> 0, write_count |-> 0, write_bytes |-> 0],
              result |-> <<"ok">>]
  IN  opened(File_open(file, read_only))

\* seek(Start(offset)) and write_all(buffer) on the file: a gap between the
\* end of the file and offset reads as zeros, an empty buffer writes nothing
File_write(bytes, offset, buffer) ==
  IF Len(buffer) = 0 THEN bytes
  ELSE [j \in 1..Max(Len(bytes), offset + Len(buffer)) |->
          IF j > offset /\ j <= offset + Len(buffer) THEN buffer[j - offset]
          ELSE IF j <= Len(bytes) THEN bytes[j] ELSE 0]

\* store.read_fully(offset, length) while the file system works:
\* [store, result]
read_fully(store, file, offset, length) ==
  IF offset >= store.size THEN [store |-> store, result |-> <<"err", "InvalidInput">>]
  ELSE IF offset + length > store.size THEN [store |-> store, result |-> <<"err", "InvalidInput">>]
  ELSE IF offset + length > Len(file.bytes) THEN [store |-> store, result |-> <<"err", "IoError">>]
  ELSE [store |-> [store EXCEPT !.read_count = @ + 1, !.read_bytes = @ + length],
        result |-> <<"ok", SubSeq(file.bytes, offset + 1, offset + length)>>]

\* write_fully that adds the length to size
write_fully_adds(store, file, offset, buffer) ==
  IF store.read_only THEN [store |-> store, file |-> file, result |-> <<"err", "ReadOnly">>]
  ELSE [store |-> [store EXCEPT !.size = @ + Len(buffer),
                                !.write_count = @ + 1,
                                !.write_bytes = @ + Len(buffer)],
        file |-> [file EXCEPT !.bytes = File_write(@, offset, buffer)],
        result |-> <<"ok">>]

\* store.write_fully(offset, buffer) while the file system works:
\* [store, file, result]
write_fully(store, file, offset, buffer) ==
  IF store.read_only THEN [store |-> store, file |-> file, result |-> <<"err", "ReadOnly">>]
  ELSE [store |-> [store EXCEPT !.size = Max(@, offset + Len(buffer)),
                                !.write_count = @ + 1,
                                !.write_bytes = @ + Len(buffer)],
        file |-> [file EXCEPT !.bytes = File_write(@, offset, buffer)],
        result |-> <<"ok">>]

\* ------------------------------------------------------ file store: state
FileOffsets == 0..3

FileLengths == 0..2

FileBuffers == {<<>>, <<1>>, <<2, 3>>}

\* the variables the file store leaves alone
file_frame == <<btree_vars, page_vars, chunk_vars, fletcher_vars, footer_vars, value_vars, collection_vars, codec_vars>>

\* no other program has started
FileStoreAlone ==
  /\ NoBtree
  /\ NoPageState
  /\ NoChunkState
  /\ NoFletcher
  /\ NoFooter
  /\ NoValue
  /\ NoCollection
  /\ NoCodecs

\* the file is absent, empty or two bytes long
InitFile ==
  /\ FileStoreAlone
  /\ overflow_checks = FALSE
  /\ fs_file \in {[exists |-> FALSE, bytes |-> <<>>], [exists |-> TRUE, bytes |-> <<>>],
                  [exists |-> TRUE, bytes |-> <<7, 7>>]}
  /\ fs_store = <<>>
  /\ fs_call = NoCall
  /\ fs_result = <<"none">>
  /\ fs_log = [calls |-> 0, initial_size |-> 0, writes |-> <<>>]

\* fs_store = FileStore::open(file_name, read_only)
Open(read_only) ==
  /\ fs_store = <<>>
  /\ fs_log.calls < MaxFileOps
  /\ LET r == FileStore_open(fs_file, read_only)
     IN  /\ fs_file' = r.file
         /\ fs_store' = r.store
         /\ fs_result' = r.result
         /\ fs_log' = [fs_log EXCEPT !.calls = @ + 1,
                                     !.initial_size = IF r.result[1] = "ok" THEN r.store.size ELSE @]
  /\ fs_call' = [NoCall EXCEPT !.op = "open", !.read_only = read_only]
  /\ UNCHANGED file_frame

\* fs_store.read_fully(offset, length)
ReadFully(offset, length) ==
  /\ fs_store # <<>>
  /\ fs_log.calls < MaxFileOps
  /\ LET r == read_fully(fs_store, fs_file, offset, length)
     IN  /\ fs_store' = r.store
         /\ fs_result' = r.result
  /\ fs_call' = [NoCall EXCEPT !.op = "read_fully", !.offset = offset, !.length = length]
  /\ fs_log' = [fs_log EXCEPT !.calls = @ + 1]
  /\ UNCHANGED fs_file
  /\ UNCHANGED file_frame

\* fs_store.read_fully(offset, length) when seek or read_exact fails
ReadFullyIoError(offset, length) ==
  /\ fs_store # <<>>
  /\ fs_log.calls < MaxFileOps
  /\ offset < fs_store.size
  /\ offset + length <= fs_store.size
  /\ fs_result' = <<"err", "IoError">>
  /\ fs_call' = [NoCall EXCEPT !.op = "read_fully", !.offset = offset, !.length = length]
  /\ fs_log' = [fs_log EXCEPT !.calls = @ + 1]
  /\ UNCHANGED <<fs_file, fs_store>>
  /\ UNCHANGED file_frame

\* fs_store.write_fully(offset, buffer)
WriteFully(offset, buffer) ==
  /\ fs_store # <<>>
  /\ fs_log.calls < MaxFileOps
  /\ LET r == write_fully(fs_store, fs_file, offset, buffer)
     IN  /\ fs_store' = r.store
         /\ fs_file' = r.file
         /\ fs_result' = r.result
         /\ fs_log' = [fs_log EXCEPT !.calls = @ + 1,
                                     !.writes = IF r.result[1] = "ok"
                                                THEN Append(@, [offset |-> offset, length |-> Len(buffer)])
                                                ELSE @]
  /\ fs_call' = [NoCall EXCEPT !.op = "write_fully", !.offset = offset, !.length = Len(buffer),
                               !.buffer = buffer]
  /\ UNCHANGED file_frame

\* fs_store.write_fully(offset, buffer) when seek fails (written = 0) or
\* write_all fails after writing the first written bytes
WriteFullyIoError(offset, buffer, written) ==
  /\ fs_store # <<>>
  /\ ~fs_store.read_only
  /\ fs_log.calls < MaxFileOps
  /\ fs_file' = [fs_file EXCEPT !.bytes = File_write(@, offset, SubSeq(buffer, 1, written))]
  /\ fs_result' = <<"err", "IoError">>
  /\ fs_call' = [NoCall EXCEPT !.op = "write_fully", !.offset = offset, !.length = Len(buffer),
                               !.buffer = buffer]
  /\ fs_log' = [fs_log EXCEPT !.calls = @ + 1]
  /\ UNCHANGED fs_store
  /\ UNCHANGED file_frame

NextFile ==
  \/ \E read_only \in BOOLEAN : Open(read_only)
  \/ \E offset \in FileOffsets, length \in FileLengths : ReadFully(offset, length)
  \/ \E offset \in FileOffsets, length \in FileLengths : ReadFullyIoError(offset, length)
  \/ \E offset \in FileOffsets, buffer \in FileBuffers : WriteFully(offset, buffer)
  \/ \E offset \in FileOffsets, buffer \in FileBuffers :
       \E written \in 0..(Len(buffer) - 1) : WriteFullyIoError(offset, buffer, written)

SpecFile == InitFile /\ [][NextFile]_vars

\* ------------------------------------------ file store: what a log holds
RECURSIVE MaxEnd(_)
\* the largest offset + length of the writes, 0 when there is none
MaxEnd(writes) ==
  IF writes = <<>> THEN 0
  ELSE Max(Head(writes).offset + Head(writes).length, MaxEnd(Tail(writes)))

RECURSIVE SumLengths(_)
\* the sum of the lengths of the writes
SumLengths(writes) ==
  IF writes = <<>> THEN 0 ELSE Head(writes).length + SumLengths(Tail(writes))

\* ------------------------------------------------------------------ value
\* src/schema/value.rs.  A Value is [variant, payload]: a Byte's payload is
\* 0..255, a Short's and an Int's the signed integer, a Boolean's a
\* BOOLEAN, a String's its UTF-8 bytes; a Long's, a Float's and a Double's
\* is the sequence of the 16-bit limbs of its bit pattern, least
\* significant first (4, 2 and 4 limbs).
TYPE_BYTE_ID == 0
TYPE_SHORT_ID == 1
TYPE_INT_ID == 2
TYPE_LONG_ID == 3
TYPE_FLOAT_ID == 4
TYPE_DOUBLE_ID == 5
TYPE_BOOLEAN_ID == 6
TYPE_STRING_ID == 7

TYPE_BYTE_SIZE == 2
TYPE_SHORT_SIZE == 3
TYPE_INT_SIZE == 5
TYPE_LONG_SIZE == 9
TYPE_FLOAT_SIZE == 5
TYPE_DOUBLE_SIZE == 9
TYPE_BOOLEAN_SIZE == 2
TYPE_STRING_SIZE == 256

RECURSIVE Limbs_to_le_bytes(_)
\* to_le_bytes of a 32-bit or 64-bit pattern
Limbs_to_le_bytes(limbs) ==
  IF limbs = <<>> THEN <<>> ELSE ToLeBytes(Head(limbs), 2) \o Limbs_to_le_bytes(Tail(limbs))

\* from_le_bytes of 4 or 8 bytes to a bit pattern
Limbs_from_le_bytes(bytes) ==
  [j \in 1..(Len(bytes) \div 2) |-> bytes[2 * j - 1] + 256 * bytes[2 * j]]

\* i16::from_le_bytes and i32::from_le_bytes: the last byte holds the sign
Signed_from_le_bytes(bytes) ==
  LET last == bytes[Len(bytes)]
  IN  FromLeBytes(SubSeq(bytes, 1, Len(bytes) - 1))
        + (IF last >= 128 THEN last - 256 ELSE last) * (256 ^ (Len(bytes) - 1))

\* value.chars().count(): the bytes that are not continuation bytes
CharsCount(utf8_bytes) == Cardinality({j \in 1..Len(utf8_bytes) : utf8_bytes[j] \notin 128..191})

\* String::from_utf8 accepts the bytes: every lead byte is followed by the
\* continuation bytes its sequence needs (no overlong form, no surrogate,
\* nothing above U+10FFFF) and every continuation byte belongs to one
ValidUtf8(b) ==
  LET cont(j) == j <= Len(b) /\ b[j] \in 128..191
      lead(j, bytes) == j >= 1 /\ b[j] \in bytes
  IN  \A j \in 1..Len(b) :
        IF b[j] < 128 THEN TRUE
        ELSE IF b[j] \in 128..191
             THEN lead(j - 1, 194..244) \/ lead(j - 2, 224..244) \/ lead(j - 3, 240..244)
        ELSE IF b[j] \in 194..223 THEN cont(j + 1)
        ELSE IF b[j] = 224 THEN j + 1 <= Len(b) /\ b[j + 1] \in 160..191 /\ cont(j + 2)
        ELSE IF b[j] = 237 THEN j + 1 <= Len(b) /\ b[j + 1] \in 128..159 /\ cont(j + 2)
        ELSE IF b[j] \in 225..239 THEN cont(j + 1) /\ cont(j + 2)
        ELSE IF b[j] = 240 THEN j + 1 <= Len(b) /\ b[j + 1] \in 144..191 /\ cont(j + 2) /\ cont(j + 3)
        ELSE IF b[j] \in 241..243 THEN cont(j + 1) /\ cont(j + 2) /\ cont(j + 3)
        ELSE IF b[j] = 244 THEN j + 1 <= Len(b) /\ b[j + 1] \in 128..143 /\ cont(j + 2) /\ cont(j + 3)
        ELSE FALSE

\* serialize_string(value): <<"ok", bytes>> or <<"panic">>
serialize_string(value) ==
  IF CharsCount(value) > 255 THEN <<"panic">>
  ELSE <<"ok", <<TYPE_STRING_ID, Len(value) % 256>> \o value>>

\* v.serialize(): <<"ok", bytes>> or <<"panic">>
Value_serialize(v) ==
  CASE v.variant = "Byte" -> <<"ok", <<TYPE_BYTE_ID, v.payload>>>>
    [] v.variant = "Short" -> <<"ok", <<TYPE_SHORT_ID>> \o ToLeBytes(v.payload, 2)>>
    [] v.variant = "Int" -> <<"ok", <<TYPE_INT_ID>> \o ToLeBytes(v.payload, 4)>>
    [] v.variant = "Long" -> <<"ok", <<TYPE_LONG_ID>> \o Limbs_to_le_bytes(v.payload)>>
    [] v.variant = "Float" -> <<"ok", <<TYPE_FLOAT_ID>> \o Limbs_to_le_bytes(v.payload)>>
    [] v.variant = "Double" -> <<"ok", <<TYPE_DOUBLE_ID>> \o Limbs_to_le_bytes(v.payload)>>
    [] v.variant = "Boolean" -> <<"ok", <<TYPE_BOOLEAN_ID, IF v.payload THEN 1 ELSE 0>>>>
    [] v.variant = "String" -> serialize_string(v.payload)

\* deserialize_string(bytes)
deserialize_string(bytes) ==
  IF Len(bytes) < TYPE_STRING_SIZE THEN <<"err", "Incomplete string length">>
  ELSE LET len == bytes[2]
           string_bytes == SubSeq(bytes, 3, 2 + len)
       IN  IF Len(bytes) < 2 + len THEN <<"err", "Incomplete string data">>
           ELSE IF ~ValidUtf8(string_bytes) THEN <<"err", "Invalid UTF-8">>
           ELSE <<"ok", [variant |-> "String", payload |-> string_bytes], 2 + len>>

\* one of deserialize_byte .. deserialize_double, deserialize_boolean:
\* value is computed only when the bytes are complete
Fixed(bytes, size, variant, value(_)) ==
  IF Len(bytes) < size THEN <<"err", "Incomplete value">>
  ELSE <<"ok", [variant |-> variant, payload |-> value(bytes)], size>>

\* Value::deserialize(bytes): <<"ok", value, consumed>> or <<"err", why>>
Value_deserialize(bytes) ==
  LET byte(b) == b[2]
      signed2(b) == Signed_from_le_bytes(SubSeq(b, 2, 3))
      signed4(b) == Signed_from_le_bytes(SubSeq(b, 2, 5))
      limbs4(b) == Limbs_from_le_bytes(SubSeq(b, 2, 5))
      limbs8(b) == Limbs_from_le_bytes(SubSeq(b, 2, 9))
      boolean(b) == b[2] # 0
  IN  IF Len(bytes) = 0 THEN <<"err", "Empty bytes">>
      ELSE CASE bytes[1] = TYPE_BYTE_ID -> Fixed(bytes, TYPE_BYTE_SIZE, "Byte", byte)
             [] bytes[1] = TYPE_SHORT_ID -> Fixed(bytes, TYPE_SHORT_SIZE, "Short", signed2)
             [] bytes[1] = TYPE_INT_ID -> Fixed(bytes, TYPE_INT_SIZE, "Int", signed4)
             [] bytes[1] = TYPE_LONG_ID -> Fixed(bytes, TYPE_LONG_SIZE, "Long", limbs8)
             [] bytes[1] = TYPE_FLOAT_ID -> Fixed(bytes, TYPE_FLOAT_SIZE, "Float", limbs4)
             [] bytes[1] = TYPE_DOUBLE_ID -> Fixed(bytes, TYPE_DOUBLE_SIZE, "Double", limbs8)
             [] bytes[1] = TYPE_BOOLEAN_ID -> Fixed(bytes, TYPE_BOOLEAN_SIZE, "Boolean", boolean)
             [] bytes[1] = TYPE_STRING_ID -> deserialize_string(bytes)
             [] OTHER -> <<"err", "Unknown type tag">>

\* ------------------------------------------------------------ value: state
\* 16-bit limbs: zero, one, a sign bit, all ones
LimbValues == {0, 1, 32768, 65535}

\* strings: every string of up to 2 bytes over "a" and NUL, "e" with an
\* acute accent (2 bytes) alone and after "a", and "a" repeated 253, 254
\* and 255 times, and 256 times (which serialize_string refuses)
Strings ==
  UNION {[1..len -> {97, 0}] : len \in 0..2}
    \cup {<<195, 169>>, <<97, 195, 169>>}
    \cup {Fill(<<97>>, len) : len \in 253..256}

Values ==
  [variant : {"Byte"}, payload : {0, 1, 127, 128, 255}]
    \cup [variant : {"Short"}, payload : {-32768, -256, -1, 0, 1, 255, 256, 32767}]
    \cup [variant : {"Int"}, payload : {-2147483647 - 1, -65536, -1, 0, 1, 65535, 16909060, 2147483647}]
    \cup [variant : {"Long"}, payload : {<<a, 0, b, c>> : a \in LimbValues, b \in {0, 258}, c \in LimbValues}]
    \cup [variant : {"Float"}, payload : {<<a, b>> : a \in {0, 1}, b \in {0, 16256, 32704, 65408}}]
    \cup [variant : {"Double"}, payload : {<<a, 0, 0, b>> : a \in {0, 1}, b \in {0, 16368, 32760, 65520}}]
    \cup [variant : {"Boolean"}, payload : BOOLEAN]
    \cup [variant : {"String"}, payload : Strings]

\* the variables Value leaves alone
value_frame == <<btree_vars, page_vars, chunk_vars, fletcher_vars, footer_vars, file_vars, collection_vars, codec_vars>>

\* no other program has started
ValueAlone ==
  /\ NoBtree
  /\ NoPageState
  /\ NoChunkState
  /\ NoFletcher
  /\ NoFooter
  /\ NoFileStore
  /\ NoCollection
  /\ NoCodecs

InitValue ==
  /\ ValueAlone
  /\ overflow_checks = FALSE
  /\ val \in Values
  /\ val_ser = <<"none">>
  /\ val_read = <<"none">>

\* val_ser = val.serialize()
SerializeValue ==
  /\ val_ser = <<"none">>
  /\ val_ser' = Value_serialize(val)
  /\ UNCHANGED <<val, val_read>>
  /\ UNCHANGED value_frame

\* val_read = Value::deserialize(&val_ser)
DeserializeValue ==
  /\ val_ser[1] = "ok"
  /\ val_read = <<"none">>
  /\ val_read' = Value_deserialize(val_ser[2])
  /\ UNCHANGED <<val, val_ser>>
  /\ UNCHANGED value_frame

NextValue ==
  \/ SerializeValue
  \/ DeserializeValue

SpecValue == InitValue /\ [][NextValue]_vars

\* --------------------------------------------------- storage/file_manager.rs
\* A FileManager is [file, page_count]: file is the content of the file as
\* the sequence of its 4096-byte pages, page 0 first.
DataPage == 1

\* FileManager::new(path), file the content of the file at path
FileManager_new(file) == [file |-> file, page_count |-> Len(file)]

\* FileManager::read_page: <<"ok", page>> or <<"err">>; read_exact fails
\* beyond the end of the file
read_page(fm, page_id) ==
  IF page_id >= fm.page_count THEN <<"err">>
  ELSE IF page_id >= Len(fm.file) THEN <<"err">>
  ELSE Page_deserialize(fm.file[page_id + 1])

\* FileManager::write_page: [file_manager, result]; a write beyond the end
\* of the file leaves zero bytes in between
write_page(fm, page_id, p) ==
  LET written(r) ==
        IF r.panic THEN [file_manager |-> fm, result |-> <<"panic">>]
        ELSE [file_manager |->
                [file |-> [i \in 1..Max(Len(fm.file), page_id + 1) |->
                             IF i = page_id + 1 THEN r.bytes
                             ELSE IF i <= Len(fm.file) THEN fm.file[i]
                             ELSE ZeroBytes(PAGE_SIZE)],
                 page_count |-> IF page_id >= fm.page_count THEN page_id + 1 ELSE fm.page_count],
              result |-> <<"ok">>]
  IN  written(Page_serialize(p))

\* FileManager::allocate_page: [file_manager, page_id, page]
allocate_page(fm, page_type, collection_id) ==
  [file_manager |-> [fm EXCEPT !.page_count = @ + 1],
   page_id |-> fm.page_count,
   page |-> Page_new(page_type, collection_id)]

\* Page::can_fit
can_fit(p, record_size) == p.header.free_space_size >= record_size + 4

\* ------------------------------------------------------------- schema.rs
\* A Document is [id, data]: id a u64, data the function from the field
\* names (their UTF-8 bytes) to the Values.  A Schema is [fields], each
\* field [name, field_type, nullable].
\* FieldType::validates
validates(field_type, value) == value.variant = field_type

\* Schema::validate_document
validate_document(schema, document) ==
  /\ \A i \in 1..Len(schema.fields) :
       IF schema.fields[i].name \in DOMAIN document.data
       THEN validates(schema.fields[i].field_type, document.data[schema.fields[i].name])
       ELSE schema.fields[i].nullable
  /\ \A key \in DOMAIN document.data :
       \E i \in 1..Len(schema.fields) : schema.fields[i].name = key

\* --------------------------------------------- storage/paged_collection.rs
RECURSIVE serialize_fields(_, _, _)
\* the loop of serialize_document over the fields, keys the order in which
\* the HashMap yields them, up to field number upto
serialize_fields(data, keys, upto) ==
  IF upto = 0 THEN <<>>
  ELSE serialize_fields(data, keys, upto - 1)
         \o <<Len(keys[upto]) % 256>> \o keys[upto] \o Value_serialize(data[keys[upto]])[2]

\* PagedCollection::serialize_document: <<"ok", bytes>>, or <<"panic">> when
\* Value::serialize panics
serialize_document(document, keys) ==
  IF \E key \in DOMAIN document.data : Value_serialize(document.data[key])[1] # "ok"
  THEN <<"panic">>
  ELSE <<"ok", U64_to_le_bytes(document.id) \o ToLeBytes(Len(keys), 4)
                 \o serialize_fields(document.data, keys, Len(keys))>>

RECURSIVE read_fields(_, _, _, _)
\* the loop of deserialize_document with count fields to go, at offset:
\* <<"ok", data>> or <<"err", why>>
read_fields(bytes, count, offset, data) ==
  LET key_len == bytes[offset + 1]
      key == SubSeq(bytes, offset + 2, offset + 1 + key_len)
      with_value(v) ==
        IF v[1] # "ok" THEN v
        ELSE read_fields(bytes, count - 1, offset + 1 + key_len + v[3], (key :> v[2]) @@ data)
  IN  IF count = 0 THEN <<"ok", data>>
      ELSE IF offset >= Len(bytes) THEN <<"err", "Incomplete field data">>
      ELSE IF offset + 1 + key_len > Len(bytes) THEN <<"err", "Incomplete field name">>
      ELSE IF ~ValidUtf8(key) THEN <<"err", "Invalid field name UTF-8">>
      ELSE with_value(Value_deserialize(SubSeq(bytes, offset + 2 + key_len, Len(bytes))))

\* PagedCollection::deserialize_document: <<"ok", document>> or <<"err", why>>
deserialize_document(bytes) ==
  LET document(data) ==
        IF data[1] # "ok" THEN data
        ELSE <<"ok", [id |-> U64_from_le_bytes(SubSeq(bytes, 1, 8)), data |-> data[2]]>>
  IN  IF Len(bytes) < 12 THEN <<"err", "Document data too short">>
      ELSE document(read_fields(bytes, read_u32(bytes, 8), 12, <<>>))

\* PagedCollection::find_page_for_insert: [file_manager, current_page_id,
\* result], result <<"ok", page_id, slot_index>>, <<"err">> or <<"panic">>.
\* An Option is <<"None">> or <<"Some", value>>.
find_page_for_insert(c, record_data) ==
  LET failed(fm, result) ==
        [file_manager |-> fm, current_page_id |-> c.current_page_id, result |-> result]
      written(w, page_id, slot_index) ==
        IF w.result[1] # "ok" THEN failed(w.file_manager, w.result)
        ELSE [file_manager |-> w.file_manager,
              current_page_id |-> <<"Some", page_id>>,
              result |-> <<"ok", page_id, slot_index>>]
      inserted(fm, page_id, r) ==
        IF r.result[1] # "ok" THEN failed(fm, r.result)
        ELSE written(write_page(fm, page_id, r.page), page_id, r.result[2])
      allocated(a) == inserted(a.file_manager, a.page_id, insert_record(a.page, record_data))
      new_page == allocated(allocate_page(c.file_manager, DataPage, c.collection_id))
      current(read) ==
        IF read[1] = "ok" /\ can_fit(read[2], record_data.len)
        THEN inserted(c.file_manager, c.current_page_id[2], insert_record(read[2], record_data))
        ELSE new_page
  IN  IF c.current_page_id[1] = "Some"
      THEN current(read_page(c.file_manager, c.current_page_id[2]))
      ELSE new_page

\* a u64 below 2^31
U64_of(n) == [lo |-> n, hi |-> 0]

\* a Vec<u8> as the value [len, nz]
VecOf(bytes) == CopyFromArray(ZeroBytes(Len(bytes)), 0, bytes)

\* PagedCollection::insert(document), keys the order in which the HashMap
\* of the document yields its fields: [collection, result], result
\* <<"ok", id>>, <<"err">> or <<"panic">>
PagedCollection_insert(c, data, keys) ==
  LET document == [id |-> U64_of(c.next_id), data |-> data]
      found(r) ==
        IF r.result[1] # "ok"
        THEN [collection |-> [c EXCEPT !.file_manager = r.file_manager], result |-> r.result]
        ELSE [collection |-> [c EXCEPT !.file_manager = r.file_manager,
                                       !.current_page_id = r.current_page_id,
                                       !.documents = (c.next_id :> <<r.result[2], r.result[3]>>) @@ @,
                                       !.next_id = @ + 1],
              result |-> <<"ok", c.next_id>>]
      serialized(bytes) ==
        IF bytes[1] # "ok" THEN [collection |-> c, result |-> <<"panic">>]
        ELSE found(find_page_for_insert(c, VecOf(bytes[2])))
  IN  IF ~validate_document(c.schema, document) THEN [collection |-> c, result |-> <<"err">>]
      ELSE serialized(serialize_document(document, keys))

\* PagedCollection::find_by_id: <<"ok", "None">>, <<"ok", "Some", document>>,
\* <<"err">> or <<"panic">>
PagedCollection_find_by_id(c, id) ==
  LET document(d) == IF d[1] # "ok" THEN <<"err">> ELSE <<"ok", "Some", d[2]>>
      record(r) ==
        IF r[1] # "ok" THEN r
        ELSE document(deserialize_document(ArrayOf(r[2], 0, r[2].len)))
      read(p, slot_index) == IF p[1] # "ok" THEN <<"err">> ELSE record(get_record(p[2], slot_index))
  IN  IF id \notin DOMAIN c.documents THEN <<"ok", "None">>
      ELSE read(read_page(c.file_manager, c.documents[id][1]), c.documents[id][2])

\* ----------------------------------------------- paged collection: state
\* the names "a" .. "i"
FieldNames == {<<97 + i>> : i \in 0..8}

\* one required byte field "a" and the nullable string fields "b" .. "i"
Schemas ==
  {[fields |-> [i \in 1..9 |-> [name |-> <<96 + i>>,
                                field_type |-> IF i = 1 THEN "Byte" ELSE "String",
                                nullable |-> i # 1]]]}

ByteValue(b) == [variant |-> "Byte", payload |-> b]

StringValue(bytes) == [variant |-> "String", payload |-> bytes]

\* a document of 17 bytes, one of 22 bytes whose HashMap yields its two
\* fields in either order, one of 2088 bytes (two of them do not fit in one
\* page) and one that the schema rejects
Documents ==
  {[data |-> (<<97>> :> ByteValue(1)), keys |-> <<<<97>>>>],
   [data |-> (<<97>> :> ByteValue(200)) @@ (<<98>> :> StringValue(<<104, 105>>)),
    keys |-> <<<<97>>, <<98>>>>],
   [data |-> (<<97>> :> ByteValue(200)) @@ (<<98>> :> StringValue(<<104, 105>>)),
    keys |-> <<<<98>>, <<97>>>>],
   [data |-> [name \in FieldNames |->
                IF name = <<97>> THEN ByteValue(7) ELSE StringValue(Fill(<<120>>, 255))],
    keys |-> [i \in 1..9 |-> <<96 + i>>]],
   [data |-> (<<98>> :> StringValue(<<104, 105>>)), keys |-> <<<<98>>>>]}

collection_frame == <<btree_vars, page_vars, chunk_vars, fletcher_vars, footer_vars, file_vars, value_vars, codec_vars>>

\* no other program has started
PagedCollectionAlone ==
  /\ NoBtree
  /\ NoPageState
  /\ NoChunkState
  /\ NoFletcher
  /\ NoFooter
  /\ NoFileStore
  /\ NoValue
  /\ NoCodecs

\* PagedCollection::new(schema, collection_id, file_path) on a new file
InitCollection ==
  /\ PagedCollectionAlone
  /\ overflow_checks \in BOOLEAN
  /\ collection \in {[schema |-> schema,
                      file_manager |-> FileManager_new(<<>>),
                      collection_id |-> collection_id,
                      documents |-> <<>>,
                      next_id |-> 1,
                      current_page_id |-> <<"None">>] :
                       schema \in Schemas, collection_id \in {16909060}}
  /\ pc_result = <<"none">>
  /\ pc_inserted = <<>>

\* a panic ends the program
CollectionRunning == IF pc_result = <<"none">> THEN TRUE ELSE pc_result[Len(pc_result)] # <<"panic">>

\* collection.insert(document); pc_inserted holds the documents of the
\* successful calls with the ids returned, in the order of the calls
InsertDocument(document) ==
  /\ CollectionRunning
  /\ Len(pc_inserted) < MaxInserts
  /\ LET r == PagedCollection_insert(collection, document.data, document.keys)
     IN  /\ collection' = r.collection
         /\ pc_result' = <<"insert", r.result>>
         /\ pc_inserted' = IF r.result[1] = "ok"
                           THEN Append(pc_inserted, [id |-> r.result[2], data |-> document.data])
                           ELSE pc_inserted
  /\ UNCHANGED collection_frame

\* collection.find_by_id(id)
FindById(id) ==
  /\ CollectionRunning
  /\ pc_result' = <<"find", id, PagedCollection_find_by_id(collection, id)>>
  /\ UNCHANGED <<collection, pc_inserted>>
  /\ UNCHANGED collection_frame

NextCollection ==
  \/ \E document \in Documents : InsertDocument(document)
  \/ \E id \in 1..(Len(pc_inserted) + 1) : FindById(id)

SpecCollection == InitCollection /\ [][NextCollection]_vars

\* ------------------------------------------------------------------ claims

\* C1: after a set K of distinct keys was inserted in any order and the keys
\* of a subset D of K were then deleted in any order, search(k) returns
\* Some(..) iff k is in K \ D (stored is K \ D; interleaved is FALSE as long
\* as no insert followed a delete).
C1_RoundTrip ==
  (panicked = "none" /\ ~interleaved) => \A key \in Keys : Found(key) <=> key \in stored

\* C2: after inserting a set K of distinct keys in any order (no deletes),
\* every insert has returned, search(k) returns Some((node, i)) with
\* node.keys[i] = k and i < node.n for k in K, and None for k not in K.
C2_InsertSearch ==
  /\ panicked = "none"
  /\ \A key \in 0..(MaxInsertKey + 1) :
        LET r == search(Cur, key)
        IN  IF key \in stored
            THEN r[1] = "some" /\ r[3] < nodes[r[2] + 1].n /\ nodes[r[2] + 1].keys[r[3] + 1] = key
            ELSE r = <<"none">>

\* a tree of three levels built by inserts alone, holding keys in its leaves
\* and in its internal nodes
C2_Witness ==
  /\ panicked = "none"
  /\ Height = 3
  /\ \E key \in stored : search(Cur, key)[2] = root_id
  /\ \E key \in stored : nodes[search(Cur, key)[2] + 1].is_leaf

\* C3: delete(k) of a key k that is not stored in the tree (0 included) leaves
\* the set of keys that search finds unchanged.
C3_DeleteAbsentIsNoop ==
  [][\A key \in Keys :
        (Delete(key) /\ ~Found(key) /\ panicked' = "none") => FoundKeys' = FoundKeys]_vars

\* C4: after every completed insert or delete of distinct keys, every
\* non-root node reachable from the root has t-1 <= n <= 2t-1 and the root
\* has 0 <= n <= 2t-1.
C4_Occupancy ==
  panicked = "none" =>
     \A id \in Reach : /\ nodes[id + 1].n <= 2 * t - 1
                       /\ id # root_id => nodes[id + 1].n >= t - 1

\* C5: after every completed insert or delete of distinct keys, in every
\* reachable node keys[0..n) is strictly increasing, and for every internal
\* node and i < n the keys of the subtree children[i] are < keys[i] and the
\* keys of the subtree children[i+1] are > keys[i].
C5_SearchTree ==
  panicked = "none" =>
     \A id \in Reach :
        LET node == nodes[id + 1]
        IN  /\ node.n <= Len(node.keys)
            /\ \A i \in 1..(node.n - 1) : node.keys[i] < node.keys[i + 1]
            /\ ~node.is_leaf =>
                 /\ node.n + 1 <= Len(node.children)
                 /\ \A i \in 1..node.n :
                       /\ \A k \in SubtreeKeys(node.children[i], Len(nodes)) : k < node.keys[i]
                       /\ \A k \in SubtreeKeys(node.children[i + 1], Len(nodes)) : k > node.keys[i]

\* C6: after every completed insert or delete, all leaves reachable from the
\* root are at the same depth.
C6_Balance == panicked = "none" => Cardinality(LeafDepths) <= 1

\* C7: after every completed insert or delete, every NodeId in children[0..n]
\* of a node reachable from the root is allocated: it is an index of the node
\* vector and it is not on the free list.
C7_ArenaIntegrity ==
  panicked = "none" =>
     \A id \in Reach : \A c \in ChildIds(id) :
        c < Len(nodes) /\ \A j \in 1..Len(free_list) : free_list[j] # c

\* C8: insert(k) of a key that is already stored is a no-op: the tree holds
\* the same keys as before, each once.
C8_InsertExistingIsNoop ==
  [][\A key \in Keys :
        (Insert(key) /\ Found(key) /\ panicked' = "none") =>
           FoundKeys' = FoundKeys /\ TotalKeys' = TotalKeys]_vars

\* C9: after a delete returns the root is not an internal node with n = 0;
\* a delete that finds the root with one key and two minimal children makes
\* the merged (left) child the root, puts the old root on the free list and
\* lowers the height by exactly 1.
C9_RootShrinks ==
  [][\A key \in Keys :
        (Delete(key) /\ panicked' = "none") =>
           /\ ~(~nodes'[root_id' + 1].is_leaf /\ nodes'[root_id' + 1].n = 0)
           /\ LET root == nodes[root_id + 1]
              IN  (/\ ~root.is_leaf
                   /\ root.n = 1
                   /\ nodes[root.children[1] + 1].n = t - 1
                   /\ nodes[root.children[2] + 1].n = t - 1)
                  => /\ root_id' = root.children[1]
                     /\ \E j \in 1..Len(free_list') : free_list'[j] = root_id
                     /\ Height' = Height - 1]_vars

C11_VecLengths ==
  /\ panicked = "none" =>
        \A i \in 1..Len(nodes) : Len(nodes[i].keys) = 2 * t - 1 /\ Len(nodes[i].children) = 2 * t
  /\ panicked # "index"

\* C12: no recursive step of an insert descends into a child that holds 2t-1
\* keys, and no recursive step of a delete descends into a child that holds
\* fewer than t keys at the moment of the descent.
C12_ProactiveBalancing == panicked = "none" => descent = "none"

\* C13: after any sequence of successful insert_record calls on a new page,
\* get_record(i) returns exactly the bytes passed to the insert that returned
\* slot index i, for every slot i; a later insert never changes the bytes of
\* an earlier record.
C13_GetRecord ==
  \A i \in 0..(Len(page.slots) - 1) :
     i \in DOMAIN records /\ get_record(page, i) = <<"ok", records[i]>>

\* C14: for a page built by Page::new and successful insert_record calls,
\* Page::deserialize(p.serialize()) succeeds and yields a page with the same
\* header fields, the same slot directory and the same record bytes for every
\* slot index.
C14_PageRoundTrip ==
  loaded # <<"none">> =>
     /\ loaded[1] = "ok"
     /\ loaded[2].header = page.header
     /\ loaded[2].slots = page.slots
     /\ \A i \in 0..(Len(page.slots) - 1) : get_record(loaded[2], i) = get_record(page, i)

\* C15: insert_record(data) returns an error exactly when data.len() + 4 >
\* free_space_size, and then the page is unchanged; when it succeeds it returns
\* the previous record_count, increments record_count by 1 and decrements
\* free_space_size by data.len() + 4.
C15_InsertRecordContract ==
  [][\A record_data \in RecordData :
        InsertRecord(record_data) =>
           /\ returned'[1] \in {"ok", "err"}
           /\ returned'[1] = "err" <=> record_data.len + 4 > page.header.free_space_size
           /\ returned'[1] = "err" => page' = page
           /\ returned'[1] = "ok" =>
                 /\ returned'[2] = page.header.record_count
                 /\ page'.header.record_count = page.header.record_count + 1
                 /\ page'.header.free_space_size = page.header.free_space_size - (record_data.len + 4)]_vars

\* an insert has failed on a page that holds two records
C15_Witness == returned = <<"err">> /\ page.header.record_count = 2

\* C16: after any sequence of successful insert_record calls on a new page,
\* free_space_size = heap_top - directory_top, heap_top the smallest slot
\* offset (4096 without records), directory_top = 24 + 4 * record_count.
C16_FreeSpace == page # NoPage => page.header.free_space_size = HeapTop - DirectoryTop

\* C17: the slot directory region [24, 24 + 4 * record_count) and the byte
\* range [offset, offset + length) of every record are disjoint.
C17_DirectoryDisjoint ==
  \A i \in 1..Len(page.slots) :
     \/ page.slots[i].length = 0
     \/ page.slots[i].offset >= DirectoryTop
     \/ page.slots[i].offset + page.slots[i].length <= PAGE_HEADER_SIZE

\* C18: after any sequence of insert_record calls, successful or failed, every
\* slot (offset, length) has 24 <= offset and offset + length <= 4096, and
\* get_record succeeds for every slot index below record_count.
C18_SlotBounds ==
  page # NoPage =>
     /\ Len(page.slots) = page.header.record_count
     /\ \A i \in 1..Len(page.slots) :
           /\ PAGE_HEADER_SIZE <= page.slots[i].offset
           /\ page.slots[i].offset + page.slots[i].length <= PAGE_SIZE
           /\ get_record(page, i - 1)[1] = "ok"

\* a failed insert on a page whose second record is the longest that fits
C18_Witness ==
  /\ returned = <<"err">>
  /\ Len(page.slots) >= 2
  /\ page.slots[2].length = 4064

\* C19: for any ChunkHeader h, serialize_header(h) is 96 bytes long and
\* deserialize_header(serialize_header(h)) succeeds and returns a header
\* equal to h in every field, magic included.
C19_HeaderRoundTrip ==
  /\ chunk_bytes # <<>> => Len(chunk_bytes) = 96
  /\ chunk_read # <<"none">> => chunk_read = <<"ok", chunk_header>>

\* C19 as amended: serialize_header(h) is 96 bytes long and
\* deserialize_header(serialize_header(h)) succeeds and returns a header
\* equal to h in id, length, version, time, max_length, page_count,
\* pin_count, table_of_content_position, layout_root_position, map_id and
\* next, whose magic is "KNCH" whatever h.magic is.
C19_HeaderRoundTripButMagic ==
  /\ chunk_bytes # <<>> => Len(chunk_bytes) = 96
  /\ chunk_read # <<"none">> =>
       /\ chunk_read[1] = "ok"
       /\ \A f \in DOMAIN chunk_header \ {"magic"} : chunk_read[2][f] = chunk_header[f]
       /\ DOMAIN chunk_read[2] = DOMAIN chunk_header
       /\ chunk_read[2].magic = <<75, 78, 67, 72>>

\* a header with another magic and a next field above 2^32 was written and
\* read back
C19_Witness ==
  /\ chunk_read # <<"none">>
  /\ chunk_read[1] = "ok"
  /\ chunk_header.magic # <<75, 78, 67, 72>>
  /\ chunk_header.next.hi > 0
  /\ chunk_header.id > 16777215

\* C20: for any ChunkHeader h, serialize_header(h) holds "KNCH" at [0,4),
\* little-endian id at [4,8), length at [8,12), version at [12,20), time at
\* [20,28), max_length at [28,32), page_count at [32,36), pin_count at
\* [36,40), table_of_content_position at [40,44), layout_root_position at
\* [44,52), map_id at [52,56), next at [56,64), and zero in [64,96)
\* (byte k of a little-endian integer v is floor(v / 256^k) mod 256; byte
\* 4 + k of a u64 is byte k of its high word).
C20_HeaderLayout ==
  chunk_bytes # <<>> =>
    LET h == chunk_header
        le32(at, v) == \A k \in 0..3 : chunk_bytes[at + k + 1] = (v \div (256 ^ k)) % 256
        le64(at, v) == le32(at, v.lo) /\ le32(at + 4, v.hi)
    IN  /\ Len(chunk_bytes) = 96
        /\ chunk_bytes[1] = 75 /\ chunk_bytes[2] = 78 /\ chunk_bytes[3] = 67 /\ chunk_bytes[4] = 72
        /\ le32(4, h.id)
        /\ le32(8, h.length)
        /\ le64(12, h.version)
        /\ le64(20, h.time)
        /\ le32(28, h.max_length)
        /\ le32(32, h.page_count)
        /\ le32(36, h.pin_count)
        /\ le32(40, h.table_of_content_position)
        /\ le64(44, h.layout_root_position)
        /\ le32(52, h.map_id)
        /\ le64(56, h.next)
        /\ \A j \in 65..96 : chunk_bytes[j] = 0

\* a header whose twelve fields all differ from those of the round-trip
\* test was serialized
C20_Witness ==
  /\ chunk_bytes # <<>>
  /\ chunk_header.magic = <<75, 69, 78, 67>>
  /\ chunk_header.id > 123 /\ chunk_header.length > 456 /\ chunk_header.max_length > 999
  /\ chunk_header.page_count > 10 /\ chunk_header.pin_count > 5
  /\ chunk_header.table_of_content_position > 100 /\ chunk_header.map_id > 42
  /\ chunk_header.version.hi > 0 /\ chunk_header.time.hi > 0
  /\ chunk_header.layout_root_position.hi > 0 /\ chunk_header.next.hi > 0

\* C21: for any ChunkFooter f (whatever f.checksum holds),
\* verify_footer(serialize_footer(f)) is true, and
\* deserialize_footer(serialize_footer(f)) returns id, length and version
\* equal to f's with checksum equal to get_fletcher32 over the first 16
\* serialized bytes.
C21_FooterRoundTrip ==
  (footer_bytes # <<>> /\ footer_damage.kind = "none") =>
    /\ footer_verified # "none" => footer_verified = "true"
    /\ footer_read # <<"none">> =>
         /\ footer_read[1] = "ok"
         /\ footer_read[2].id = footer.id
         /\ footer_read[2].length = footer.length
         /\ footer_read[2].version = footer.version
         /\ <<"ok", footer_read[2].checksum>> = get_fletcher32(SubSeq(footer_bytes, 1, 16), 0, 16)

\* a footer whose fields fill all their bytes and whose checksum field was
\* not 0 has been serialized, read back and verified
C21_Witness ==
  /\ footer # <<>>
  /\ footer.checksum.hi > 0 /\ footer.id > 123 /\ footer.length > 456 /\ footer.version.hi > 0
  /\ footer_damage.kind = "none"
  /\ footer_read # <<"none">>
  /\ footer_verified = "true"

\* C22: for any ChunkFooter f and any single bit position within bytes
\* [0,20) of serialize_footer(f), flipping that one bit makes verify_footer
\* return false; verify_footer also returns false for any input whose
\* length is not 96.
C22_FooterDamage ==
  (footer_verified # "none" /\ footer_damage.kind # "none") => footer_verified = "false"

\* the last bit of the stored checksum was flipped and the footer verified
C22_Witness ==
  /\ footer_damage = [kind |-> "bit", bit |-> 159]
  /\ footer_verified # "none"

\* C26: after any sequence of successful write_fully(offset, bytes) calls
\* on a writable FileStore, size equals the maximum of the initial size and
\* of offset + len(bytes) over all writes, write_count equals the number of
\* writes and write_bytes the sum of their lengths; size never decreases.
C26_WriteFully ==
  [][(fs_store' # <<>> /\ ~fs_store'.read_only) =>
       /\ fs_store'.size = Max(fs_log'.initial_size, MaxEnd(fs_log'.writes))
       /\ fs_store'.write_count = Len(fs_log'.writes)
       /\ fs_store'.write_bytes = SumLengths(fs_log'.writes)
       /\ fs_store # <<>> => fs_store'.size >= fs_store.size]_vars

\* a two-byte file was opened, a write ended past its end and a later
\* write, the last call, stayed inside
C26_Witness ==
  /\ fs_store # <<>>
  /\ fs_log.initial_size = 2
  /\ Len(fs_log.writes) = 2
  /\ fs_log.writes[1] = [offset |-> 3, length |-> 2]
  /\ fs_log.writes[2] = [offset |-> 0, length |-> 1]
  /\ fs_call.op = "write_fully"

\* C27: for every Value v of the closed variant set (byte, short, int,
\* long, bool, string of at most 255 UTF-8 bytes; float and double compared
\* by bit pattern), Value::deserialize(v.serialize()) returns
\* Ok((v, v.serialize().len())).
C27_ValueRoundTrip ==
  (val_read # <<"none">> /\ (val.variant = "String" => Len(val.payload) <= 255)) =>
    /\ val_read[1] = "ok"
    /\ val_read[2].variant = val.variant
    /\ val_read[2].payload = val.payload
    /\ val_read[3] = Len(val_ser[2])

C23_OffsetInvariant ==
  (InRange /\ fl_sums.whole # <<"none">> /\ fl_sums.slice # <<"none">>) =>
    /\ fl_sums.whole[1] = "ok"
    /\ fl_sums.whole = fl_sums.slice

\* both checksums were computed for a range of odd length that starts at
\* offset 1 and spans more than one 720-byte block
C23_Witness ==
  /\ fl_call # <<>>
  /\ fl_call.offset = 1 /\ fl_call.length > 720 /\ fl_call.length % 2 = 1
  /\ fl_call.bytes[1] # fl_call.bytes[2]
  /\ fl_sums.whole # <<"none">> /\ fl_sums.slice # <<"none">>

\* C24: get_fletcher32 over an empty range returns 0xFFFFFFFF, for any
\* bytes b and any offset <= |b|.
C24_EmptyRange ==
  (fl_call # <<>> /\ fl_sums.whole # <<"none">>
     /\ fl_call.length = 0 /\ fl_call.offset <= Len(fl_call.bytes)) =>
    fl_sums.whole = <<"ok", [hi |-> 65535, lo |-> 65535]>>

\* the checksum of the empty range at the end of two non-zero bytes was
\* computed
C24_Witness ==
  /\ fl_call # <<>>
  /\ fl_call.length = 0 /\ fl_call.offset = 2 /\ fl_call.bytes = <<255, 1>>
  /\ fl_sums.whole # <<"none">>

\* C25: for any bytes b of odd length L, get_fletcher32(b, 0, L) equals
\* get_fletcher32(b followed by one zero byte, 0, L + 1), and both sums of
\* the result are fully folded, that is at most 0xFFFF.
C25_OddLength ==
  (fl_call # <<>> /\ InRange /\ fl_call.offset = 0 /\ fl_call.length = Len(fl_call.bytes)
     /\ fl_call.length % 2 = 1 /\ fl_sums.whole # <<"none">> /\ fl_sums.padded # <<"none">>) =>
    /\ fl_sums.whole = fl_sums.padded
    /\ fletcher32_sums(fl_call.bytes, 0, fl_call.length).sum1 <= 65535
    /\ fletcher32_sums(fl_call.bytes, 0, fl_call.length).sum2 <= 65535

\* C29: for any sequence of successful PagedCollection.insert calls with
\* schema-valid documents, find_by_id(id) returns Ok(Some(d)) with d equal
\* to the inserted document (same id and same fields) for every id returned
\* so far; inserting a later document, whether into the same page or a new
\* one, never changes or breaks what an earlier id returns, and ids are
\* 1, 2, 3, ... in insertion order.
C29_FindInserted ==
  /\ \A i \in 1..Len(pc_inserted) : pc_inserted[i].id = i
  /\ (pc_result[1] = "find" /\ pc_result[2] <= Len(pc_inserted)) =>
       pc_result[3] = <<"ok", "Some", [id |-> U64_of(pc_result[2]),
                                      data |-> pc_inserted[pc_result[2]].data]>>

\* C30: the two ChunkHeader codecs present in the repository are
\* byte-compatible: for every ChunkHeader h the serialize_header of
\* chunk_impl_margin.rs and the serialize_header of
\* chunk_impl_header_footer.rs produce identical 96-byte output, so bytes
\* written by either one deserialize to the same header fields under the
\* other (the fields of h, the magic being the constant both write).
C30_CodecsAgree ==
  /\ (chunk_bytes # <<>> /\ hf_bytes # <<>>) => (Len(hf_bytes) = 96 /\ hf_bytes = chunk_bytes)
  /\ hf_read # <<"none">> => hf_read = <<"ok", [chunk_header EXCEPT !.magic = ChunkHeader_MAGIC]>>
  /\ margin_read # <<"none">> => margin_read = <<"ok", [chunk_header EXCEPT !.magic = ChunkHeader_MAGIC]>>

====
